---- MODULE Spec2Model ----
(***************************************************************************)
(* State-machine model of the eBay deal scanner (src/scanner.js).          *)
(*                                                                         *)
(* The source file holds three variants of the same pipeline: the first    *)
(* (lines 1-780) and the third (lines 1185-1563) are complete programs,    *)
(* the second (lines 781-1184) stops inside scrapeEbay.  The variable      *)
(* `variant` selects the program that runs: 1, 3, or 4 for the enriching   *)
(* two-pass pipeline that spec.md describes and that is absent from src/.  *)
(*                                                                         *)
(* A run is one control flow; every await of the source is a value of pc.  *)
(***************************************************************************)
EXTENDS Integers, Sequences, FiniteSets, TLC

\* ------------------------------------------------------------------------
\* Bounds of the model
\* ------------------------------------------------------------------------
MaxProfiles == 2
MaxTopN == 2
MaxContainers == 2
MaxRankings == 2
MaxBatch == 3
MaxTimePart == 120

\* ------------------------------------------------------------------------
\* Program constants
\* ------------------------------------------------------------------------
Retries == 3
RelevanceFloor == 20
RelevanceFloorV2 == 30
FetchDelayBase == 3000
FetchJitter == 4000
FetchBackoffStep == 5000
GeminiBackoffStep == 3000
PacingDelay == 5000

\* CONFIG.searches[k].unicornThreshold, in configuration order
ConfigThreshold == <<85, 88, 90, 85, 87>>

\* the searches of a run: the first n configured profiles, each with result cap topN
SearchesOf(n, topN) ==
  [k \in 1..n |-> [name |-> k, topN |-> topN, unicornThreshold |-> ConfigThreshold[k]]]

\* scores an oracle reply may carry in a run (0 is the initial score of a listing)
Scores == {21, 85, 88}

\* the reasoning text an oracle entry carries with a score
ReasonOf(score) ==
  CASE score = 20 -> "why20" [] score = 21 -> "why21" [] score = 85 -> "why85"
    [] score = 88 -> "why88" [] OTHER -> "why"

VARIABLES
  variant,            \* which program of the source file runs
  configValid,        \* validateConfig() finds every required key
  searches,           \* CONFIG.searches
  containers,         \* scrapeEbay: the containers of the page under extraction
  pc,                 \* position of the control flow
  i,                  \* main: loop index (0-based)
  fi,                 \* fetchWithDelay: loop index i
  gi,                 \* callGeminiAPI: loop index i
  fetchFor,           \* which document the running fetchWithDelay call is for
  lastErr,            \* error caught by the most recent catch of a retry loop
  thrown,             \* exception that left scrapeEbay towards main's catch
  waited,             \* length of the delay that is running or ran last
  inFlight,           \* network operations awaiting their response
  items,              \* scrapeEbay: items
  topItems,           \* main: topItems of the current profile
  parseFailed,        \* rankItemsWithGemini took the JSON.parse catch branch
  response,           \* rankItemsWithGemini: the reply text being parsed
  rankings,           \* what rankItemsWithGemini returned, while the caller holds it
  timeStr,            \* parseTimeLeft: the argument
  minutes,            \* parseTimeLeft: the value returned
  priceStr,           \* extractPrice: the argument
  priceNumeric,       \* extractPrice: the value returned
  unicornDeals,       \* main: unicornDeals
  allResultsLen,      \* main: allResults.length
  successfulSearches,
  failedSearches,
  logMessages,        \* the log buffer
  savedLog,           \* content of scan-log.txt, <<"none">> before any write
  exitCode,           \* -1 while running, else the process exit status
  emailCalls,         \* calls of sendEmail
  attempted,          \* history: profiles whose scrapeEbay was called, in order
  raisedBy,           \* history: profiles whose processing reached main's catch
  yielded,            \* history: profiles whose scrapeEbay returned a top item
  fetchAttempts,      \* history: requests issued by the running fetchWithDelay call
  oracleAttempts,     \* history: requests issued by the running callGeminiAPI call
  oracleOk,           \* history: replies with text received by that call
  detailFetches,      \* history: detail-page fetch calls of the current profile
  pass,               \* scoring pass of the current profile (1 or 2)
  shortlist,          \* listings shortlisted for enrichment
  ei,                 \* enrichment loop index
  topItems3,          \* side-by-side run, third program: main's topItems
  unicornDeals3,      \* side-by-side run, third program: main's unicornDeals
  exitCode3           \* side-by-side run, third program: -1 while running, else its exit status

vars == <<variant, configValid, searches, containers, pc, i, fi, gi, fetchFor, lastErr, thrown,
          waited, inFlight, items, topItems, parseFailed, response, rankings,
          timeStr, minutes, priceStr, priceNumeric,
          unicornDeals, allResultsLen, successfulSearches, failedSearches,
          logMessages, savedLog, exitCode, emailCalls, attempted, raisedBy, yielded,
          fetchAttempts, oracleAttempts, oracleOk, detailFetches, pass, shortlist, ei,
          topItems3, unicornDeals3, exitCode3>>

\* ------------------------------------------------------------------------
\* Pure helpers
\* ------------------------------------------------------------------------
Min(a, b) == IF a <= b THEN a ELSE b

\* values of the parsers: null, a string of characters, a number
JsNull == [t |-> "null"]
Str(s) == [t |-> "str", s |-> s]
Num(n) == [t |-> "num", n |-> n]

\* texts are sequences of tokens [t, v]; v carries the rankings of a JSON payload
Tok(t) == [t |-> t, v |-> <<>>]
Payload(r) == [t |-> "payload", v |-> r]
IsSpace(tok) == tok.t \in {"sp", "nl"}

\* String.prototype.trim
RECURSIVE TrimLeft(_)
TrimLeft(s) ==
  IF s # <<>> /\ IsSpace(Head(s)) THEN TrimLeft(Tail(s)) ELSE s

RECURSIVE TrimRight(_)
TrimRight(s) ==
  IF s # <<>> /\ IsSpace(s[Len(s)]) THEN TrimRight(SubSeq(s, 1, Len(s) - 1)) ELSE s

Trim(s) == TrimRight(TrimLeft(s))

\* jsonStr.startsWith('```')
StartsWithFence(s) == s # <<>> /\ Head(s).t = "fence"

\* jsonStr.replace(/```json\n?/g, '')
RECURSIVE StripJsonFences(_)
StripJsonFences(s) ==
  IF s = <<>> THEN <<>>
  ELSE IF Len(s) >= 2 /\ s[1].t = "fence" /\ s[2].t = "jsontag"
       THEN IF Len(s) >= 3 /\ s[3].t = "nl"
            THEN StripJsonFences(SubSeq(s, 4, Len(s)))
            ELSE StripJsonFences(SubSeq(s, 3, Len(s)))
       ELSE <<Head(s)>> \o StripJsonFences(Tail(s))

\* jsonStr.replace(/```\n?/g, '')
RECURSIVE StripFences(_)
StripFences(s) ==
  IF s = <<>> THEN <<>>
  ELSE IF s[1].t = "fence"
       THEN IF Len(s) >= 2 /\ s[2].t = "nl"
            THEN StripFences(SubSeq(s, 3, Len(s)))
            ELSE StripFences(Tail(s))
       ELSE <<Head(s)>> \o StripFences(Tail(s))

\* a tolerant parser that salvages the complete entries of a truncated reply
JSONParseSalvaging(s) ==
  LET body == Trim(s) IN
  IF Len(body) = 1 /\ body[1].t \in {"payload", "cut"}
  THEN [ok |-> body[1].t = "payload", rankings |-> body[1].v]
  ELSE [ok |-> body[1].t = "norank", rankings |-> <<>>]

\* JSON.parse(jsonStr) followed by `parsed.rankings || []`: ok is FALSE when
\* JSON.parse throws
JSONParse(s) ==
  LET body == Trim(s) IN
  IF Len(body) = 1 /\ body[1].t = "payload" THEN [ok |-> TRUE, rankings |-> body[1].v]
  ELSE IF Len(body) = 1 /\ body[1].t = "norank" THEN [ok |-> TRUE, rankings |-> <<>>]
  ELSE [ok |-> FALSE, rankings |-> <<>>]

\* rankItemsWithGemini after the oracle call returned `response`
ParseResponse(text) ==
  LET trimmed == Trim(text)
      jsonStr == IF StartsWithFence(trimmed)
                 THEN Trim(StripFences(StripJsonFences(trimmed)))
                 ELSE trimmed
  IN JSONParse(jsonStr)

\* ------------------------------------------------------------------------
\* Extraction (scrapeEbay, containers.forEach)
\* ------------------------------------------------------------------------
\* what the selectors of one container resolve to
Containers ==
  [title : {"N/A", "Shop on eBay", "item"}, price : {"N/A", "AU $100"},
   link : {"#", "itm/"}]

\* link.includes('itm/'), for the hrefs a link element may carry
LinkHasItemPath(link) == link \in {"itm/", "https://www.ebay.com.au/itm/1"}

\* title.toLowerCase().includes('shop on ebay'), for the texts a title element
\* may carry
TitleIsAd(title) == title \in {"Shop on eBay", "SHOP ON EBAY", "More - Shop on eBay"}

\* a filter without the ad placeholder test
ValidContainerKeepsAds(c) ==
  ~(c.title = "N/A" \/ c.price = "N/A" \/ ~LinkHasItemPath(c.link))

\* the negation of the `Skip invalid items` condition
ValidContainer(c) ==
  ~(c.title = "N/A" \/ c.price = "N/A" \/ ~LinkHasItemPath(c.link) \/ TitleIsAd(c.title))

\* items.push({... aiScore: 0, aiReasoning: ''}); scan records the profile whose
\* scan extracted the listing
NewItem(c, scan) ==
  [title |-> c.title, price |-> c.price, link |-> c.link, scan |-> scan,
   aiScore |-> 0, aiReasoning |-> ""]

RECURSIVE ExtractItems(_, _)
ExtractItems(lis, scan) ==
  IF lis = <<>> THEN <<>>
  ELSE IF ValidContainer(Head(lis))
       THEN <<NewItem(Head(lis), scan)>> \o ExtractItems(Tail(lis), scan)
       ELSE ExtractItems(Tail(lis), scan)

\* the pages a results fetch may return, as sequences of containers
Pages == UNION {[1..len -> Containers] : len \in 0..MaxContainers}

\* ------------------------------------------------------------------------
\* Scoring (rankItemsWithGemini, scrapeEbay)
\* ------------------------------------------------------------------------
\* ranking entries a reply may carry for a batch of n listings; id n is no index
RankingEntries(n) ==
  {[id |-> d, score |-> sc, reasoning |-> ReasonOf(sc)] : d \in 0..n, sc \in Scores}

RankingSeqs(n) ==
  UNION {[1..k -> RankingEntries(n)] : k \in 0..MaxRankings}

\* a reply cut off after its first complete ranking entry: not valid JSON
Truncated(n) == {[t |-> "cut", v |-> <<e>>] : e \in RankingEntries(n)}

\* reply texts: a JSON object with rankings, one without, text that is no JSON,
\* or truncated JSON
Bodies(n) ==
  {Payload(r) : r \in RankingSeqs(n)} \cup {Tok("norank"), Tok("junk")} \cup Truncated(n)

ShortBodies(n) == {b \in Bodies(n) : Len(b.v) <= 1}

Fenced(b) == <<Tok("fence"), Tok("jsontag"), Tok("nl"), b, Tok("nl"), Tok("fence")>>

\* the replies of a run: every body bare, the short ones also inside a fenced
\* block tagged json
Responses(n) ==
  {<<b>> : b \in Bodies(n)} \cup {Fenced(b) : b \in ShortBodies(n)}

\* an application that scores the named listing and resets every other one
ApplyRankingResetting(its, ranking) ==
  IF ranking.id >= 0 /\ ranking.id < Len(its)
  THEN [k \in 1..Len(its) |->
          IF k = ranking.id + 1
          THEN [its[k] EXCEPT !.aiScore = ranking.score,
                              !.aiReasoning = ranking.reasoning]
          ELSE [its[k] EXCEPT !.aiScore = 0, !.aiReasoning = ""]]
  ELSE its

\* an application that merges: the score is raised only, the reasoning replaced
ApplyRankingMerging(its, ranking) ==
  IF ranking.id >= 0 /\ ranking.id < Len(its)
  THEN [its EXCEPT ![ranking.id + 1].aiScore =
                     IF ranking.score > @ THEN ranking.score ELSE @,
                   ![ranking.id + 1].aiReasoning = ranking.reasoning]
  ELSE its

\* an application that clamps an identifier past the end to the last listing
ApplyRankingClamped(its, ranking) ==
  LET at == IF ranking.id < Len(its) THEN ranking.id + 1 ELSE Len(its)
  IN IF at >= 1
     THEN [its EXCEPT ![at].aiScore = ranking.score, ![at].aiReasoning = ranking.reasoning]
     ELSE its

\* if (items[ranking.id]) { items[ranking.id].aiScore = ...; .aiReasoning = ... }
ApplyRanking(its, ranking) ==
  IF ranking.id >= 0 /\ ranking.id < Len(its)
  THEN [its EXCEPT ![ranking.id + 1].aiScore = ranking.score,
                   ![ranking.id + 1].aiReasoning = ranking.reasoning]
  ELSE its

\* rankings.forEach(...)
RECURSIVE ApplyRankings(_, _)
ApplyRankings(its, ranks) ==
  IF ranks = <<>> THEN its
  ELSE ApplyRankings(ApplyRanking(its, Head(ranks)), Tail(ranks))

\* Array.prototype.sort((a, b) => b.aiScore - a.aiScore): stable, descending
\* a sort that leaves the listings in extraction order
SortSkipped(its) == its

RECURSIVE InsertDesc(_, _)
InsertDesc(sorted, it) ==
  IF sorted = <<>> THEN <<it>>
  ELSE IF Head(sorted).aiScore >= it.aiScore
       THEN <<Head(sorted)>> \o InsertDesc(Tail(sorted), it)
       ELSE <<it>> \o sorted

RECURSIVE SortDesc(_)
SortDesc(its) ==
  IF its = <<>> THEN <<>>
  ELSE InsertDesc(SortDesc(SubSeq(its, 1, Len(its) - 1)), its[Len(its)])

\* a slice that leaves out the best item
SliceAfterBest(its, topN) == SubSeq(its, 2, Min(topN + 1, Len(its)))

\* relevantItems.slice(0, topN)
Slice(its, topN) == SubSeq(its, 1, Min(topN, Len(its)))

\* a relevance test that every score passes
IsRelevantAny(it) == it.aiScore >= 0

IsRelevant(it) == it.aiScore > RelevanceFloor

IsRelevantV2(it) == it.aiScore >= RelevanceFloorV2

\* a filter whose third variant slices without sorting first
Pass1FilterThirdUnsorted(v, its, topN) ==
  IF v = 2 THEN SelectSeq(its, IsRelevantV2)
  ELSE IF v = 3 THEN Slice(SelectSeq(its, IsRelevant), topN)
  ELSE Slice(SortDesc(SelectSeq(its, IsRelevant)), topN)

\* the filter at the end of scrapeEbay, per variant of the source
Pass1Filter(v, its, topN) ==
  IF v = 2 THEN SelectSeq(its, IsRelevantV2)
  ELSE Slice(SortDesc(SelectSeq(its, IsRelevant)), topN)

\* a unicorn filter that applies the first profile's threshold to every profile
UnicornsFirstThreshold(its, searchConfig) ==
  LET Meets(it) == it.aiScore >= ConfigThreshold[1]
  IN SelectSeq(its, Meets)

\* main: topItems.filter(item => item.aiScore >= searchConfig.unicornThreshold)
Unicorns(its, searchConfig) ==
  LET Meets(it) == it.aiScore >= searchConfig.unicornThreshold
  IN SelectSeq(its, Meets)

\* unicorns.forEach(item => unicornDeals.push({ item, searchConfig }))
DealsOf(its, searchConfig) ==
  [k \in 1..Len(its) |-> [item |-> its[k], searchConfig |-> searchConfig]]

\* ------------------------------------------------------------------------
\* Logging
\* ------------------------------------------------------------------------
\* a log line, by the call site that wrote it and the number it reports
E(e, n) == [e |-> e, n |-> n]

OnlyV1(entries) == IF variant = 1 THEN entries ELSE <<>>

\* the buffer after log() was called for each of `entries`; the pipeline of
\* spec.md hands its lines to a log sink that is not part of it
Logged(entries) == IF variant = 4 THEN logMessages ELSE logMessages \o entries

\* a save that writes only the first line of the buffer
SaveLogFirstLine(buffer, wrote) ==
  IF wrote THEN [file |-> SubSeq(buffer, 1, 1),
                 buffer |-> Append(buffer, E("log_saved", 0))]
  ELSE [file |-> savedLog, buffer |-> buffer]

\* saveLog(): writeFileSync of the buffer, then log('Log saved ...'); a failing
\* write leaves the file as it was and logs nothing to the buffer
SaveLog(buffer, wrote) ==
  IF wrote THEN [file |-> buffer, buffer |-> Append(buffer, E("log_saved", 0))]
  ELSE [file |-> savedLog, buffer |-> buffer]

\* ------------------------------------------------------------------------
\* Groups of variables
\* ------------------------------------------------------------------------
setup == <<variant, configValid, searches, containers>>
counters == <<successfulSearches, failedSearches>>
results == <<unicornDeals, allResultsLen>>
enrichment == <<detailFetches, pass, shortlist, ei>>
oracleHist == <<oracleAttempts, oracleOk>>
locals == <<response, rankings>>
parsers == <<timeStr, minutes, priceStr, priceNumeric>>
thirdRun == <<topItems3, unicornDeals3, exitCode3>>
ending == <<savedLog, exitCode, emailCalls>>
outcomes == <<raisedBy, yielded>>

\* ------------------------------------------------------------------------
\* Initial state: the process was started, main() not yet entered
\* ------------------------------------------------------------------------
InitRun(variants) ==
  /\ variant \in variants
  /\ configValid \in BOOLEAN
  /\ \E n \in 1..MaxProfiles, topN \in 1..MaxTopN : searches = SearchesOf(n, topN)
  /\ pc = "m_start"
  /\ i = 0 /\ fi = 0 /\ gi = 0
  /\ fetchFor = "none" /\ lastErr = "none" /\ thrown = "none"
  /\ waited = 0 /\ inFlight = {}
  /\ items = <<>> /\ topItems = <<>> /\ parseFailed = FALSE /\ rankings = <<>>
  /\ response = <<>> /\ containers = <<>>
  /\ unicornDeals = <<>> /\ allResultsLen = 0
  /\ successfulSearches = 0 /\ failedSearches = 0
  /\ logMessages = <<>> /\ savedLog = <<E("none", 0)>>
  /\ timeStr = JsNull /\ minutes = JsNull /\ priceStr = JsNull /\ priceNumeric = JsNull
  /\ topItems3 = <<>> /\ unicornDeals3 = <<>> /\ exitCode3 = -1
  /\ exitCode = -1 /\ emailCalls = 0
  /\ attempted = <<>> /\ raisedBy = {} /\ yielded = {}
  /\ fetchAttempts = 0 /\ oracleAttempts = 0 /\ oracleOk = 0
  /\ detailFetches = 0 /\ pass = 0 /\ shortlist = <<>> /\ ei = 0

Init == InitRun({1, 3})

\* ------------------------------------------------------------------------
\* main, up to the profile loop
\* ------------------------------------------------------------------------
\* the banner, validateConfig(), and on a configuration error saveLog() and exit(1)
MainStart ==
  /\ pc = "m_start"
  /\ IF configValid
     THEN /\ logMessages' = Logged(<<E("banner", Len(searches)), E("config_ok", 0)>>)
          /\ pc' = "m_loop"
          /\ UNCHANGED <<savedLog, exitCode>>
     ELSE \E wrote \in BOOLEAN :
            LET saved == SaveLog(logMessages \o <<E("banner", Len(searches)),
                                                  E("config_error", 0)>>, wrote)
            IN /\ logMessages' = saved.buffer
               /\ savedLog' = saved.file
               /\ exitCode' = 1
               /\ pc' = "done"
  /\ UNCHANGED <<setup, locals, parsers, thirdRun, i, fi, gi, fetchFor, lastErr, thrown, waited, inFlight, items,
                 topItems, parseFailed, results, counters, emailCalls, attempted,
                 outcomes, fetchAttempts, oracleHist, enrichment>>

\* the head of the for loop while profiles remain: scrapeEbay(searches[i]) is
\* called and runs up to the first await of fetchWithDelay
MainLoop ==
  /\ pc = "m_loop" /\ i < Len(searches)
  /\ attempted' = Append(attempted, i + 1)
  /\ logMessages' = Logged(<<E("searching", i + 1), E("url", i + 1)>>)
  /\ fetchFor' = "results"
  /\ fi' = 0 /\ gi' = 0
  /\ fetchAttempts' = 0 /\ oracleAttempts' = 0 /\ oracleOk' = 0
  /\ items' = <<>> /\ topItems' = <<>> /\ parseFailed' = FALSE
  /\ lastErr' = "none" /\ thrown' = "none" /\ waited' = 0
  /\ detailFetches' = 0 /\ pass' = 0 /\ shortlist' = <<>> /\ ei' = 0
  /\ pc' = "f_delay"
  /\ UNCHANGED <<setup, locals, parsers, thirdRun, i, inFlight, results, counters, ending, outcomes>>

\* ------------------------------------------------------------------------
\* fetchWithDelay
\* ------------------------------------------------------------------------
\* a request that is not awaited: it is still outstanding when its caller goes on
SettledNever(flying, kind) == flying

\* the requests in flight once the awaited request of kind `kind` has settled:
\* await fetch(...) resumes its caller only then
Settled(flying, kind) == flying \ {kind}

FetchOutcomes == {"ok", "status", "network"}
Jitters == {0, FetchJitter - 1}

\* a pre-request delay that only retries wait for
PreRequestDelayOnRetry(attempt, jitter) ==
  IF attempt = 0 THEN 0 ELSE FetchDelayBase + jitter

\* delay(3000 + Math.random() * 4000) at the top of the try block of attempt
\* `attempt`, for Math.random() * 4000 = jitter
PreRequestDelay(attempt, jitter) == FetchDelayBase + jitter

\* await delay(3000 + Math.random() * 4000) completes and the request is issued
FetchDelay ==
  /\ pc = "f_delay"
  /\ \E jitter \in Jitters : waited' = PreRequestDelay(fi, jitter)
  /\ inFlight' = inFlight \cup {"fetch"}
  /\ fetchAttempts' = fetchAttempts + 1
  /\ pc' = "f_request"
  /\ UNCHANGED <<setup, locals, parsers, thirdRun, i, fi, gi, fetchFor, lastErr, thrown, items, topItems,
                 parseFailed, results, counters, logMessages, ending, attempted,
                 outcomes, oracleHist, enrichment>>

\* a retry loop that gives up one attempt late
FetchGivesUpLate(attempt) == attempt = Retries

\* the catch block of fetchWithDelay for attempt fi: TRUE when the error is rethrown
FetchGivesUp(attempt) == attempt = Retries - 1

\* a fetch loop that logs nothing
FetchLogSilent(attempt, outcome) == <<>>

\* what attempt `attempt` of fetchWithDelay logs when its request ended with
\* `outcome`: log(`Fetch attempt ${i + 1}/${retries} failed: ...`) in the catch
FetchLogEntries(attempt, outcome) ==
  IF outcome = "ok" THEN <<>> ELSE <<E("fetch_failed", attempt + 1)>>

\* the results-page request of scrapeEbay completes: the text is returned, or the
\* catch block logs and either backs off or rethrows into main's catch
FetchResponse ==
  /\ pc = "f_request" /\ fetchFor = "results"
  /\ inFlight' = Settled(inFlight, "fetch")
  /\ \E outcome \in FetchOutcomes :
       IF outcome = "ok"
       THEN /\ pc' = "s_extract"
            /\ UNCHANGED <<lastErr, thrown, logMessages>>
       ELSE /\ lastErr' = outcome
            /\ logMessages' = Logged(FetchLogEntries(fi, outcome))
            /\ IF FetchGivesUp(fi)
               THEN thrown' = outcome /\ pc' = "m_catch"
               ELSE UNCHANGED thrown /\ pc' = "f_backoff"
  /\ waited' = 0
  /\ UNCHANGED <<setup, locals, parsers, thirdRun, i, fi, gi, fetchFor, items, topItems, parseFailed, results,
                 counters, ending, attempted, outcomes, fetchAttempts, oracleHist,
                 enrichment>>

\* a backoff of the same length after every failure
FetchBackoffFlat(attempt) == FetchBackoffStep

\* delay(5000 * (i + 1)) in the catch block of attempt `attempt`
FetchBackoffDelay(attempt) == FetchBackoffStep * (attempt + 1)

\* await delay(5000 * (i + 1)) completes and the loop continues with i + 1
FetchBackoff ==
  /\ pc = "f_backoff"
  /\ waited' = FetchBackoffDelay(fi)
  /\ fi' = fi + 1
  /\ lastErr' = "none"
  /\ pc' = "f_delay"
  /\ UNCHANGED <<setup, locals, parsers, thirdRun, i, gi, fetchFor, thrown, inFlight, items, topItems,
                 parseFailed, results, counters, logMessages, ending, attempted,
                 outcomes, fetchAttempts, oracleHist, enrichment>>

\* ------------------------------------------------------------------------
\* scrapeEbay after the results page arrived
\* ------------------------------------------------------------------------
\* a pipeline that scores whatever the extraction produced
CallsOracleAlways(its) == TRUE

\* the batch reaches the oracle: scrapeEbay and rankItemsWithGemini both return
\* [] before any request when items.length === 0
CallsOracle(its) == Len(its) > 0

\* the page is parsed and the valid containers become items; with no item the
\* function returns [], otherwise rankItemsWithGemini issues the first oracle request
Extract ==
  /\ pc = "s_extract"
  /\ \E page \in Pages :
       LET its == ExtractItems(page, i + 1) IN
       /\ items' = its
       /\ IF ~CallsOracle(its)
          THEN /\ logMessages' = Logged(
                    <<E("html", 0), E("containers", 0), E("extracted", 0)>> \o
                    OnlyV1(<<E("no_items_scrape", i + 1)>>))
               /\ pc' = "m_after"
               /\ UNCHANGED <<inFlight, oracleAttempts, pass>>
          ELSE /\ logMessages' = Logged(
                    <<E("html", 0), E("containers", 0), E("extracted", 0)>> \o
                    OnlyV1(<<E("ai_start", 0)>>))
               /\ pc' = "g_request"
               /\ inFlight' = inFlight \cup {"oracle"}
               /\ oracleAttempts' = 1
               /\ pass' = 1
  /\ topItems' = <<>>
  /\ UNCHANGED <<setup, locals, parsers, thirdRun, i, fi, gi, fetchFor, lastErr, thrown, waited, parseFailed,
                 results, counters, ending, attempted, outcomes, fetchAttempts, oracleOk,
                 detailFetches, shortlist, ei>>

\* ------------------------------------------------------------------------
\* callGeminiAPI and the rest of scrapeEbay
\* ------------------------------------------------------------------------
OracleOutcomes == {"text", "status", "notext", "network"}

\* an oracle retry loop that never gives up
OracleNeverGivesUp(attempt) == FALSE

\* an oracle retry loop that gives up one attempt late
OracleGivesUpLate(attempt) == attempt = Retries

\* the catch block of callGeminiAPI for attempt gi: TRUE when the error is rethrown
OracleGivesUp(attempt) == attempt = Retries - 1

\* what scrapeEbay returns for the parsed reply: the rankings are applied and the
\* items filtered, or [] when there are no rankings
TopItemsOf(v, its, ranks, topN) ==
  IF Len(ranks) > 0 THEN Pass1Filter(v, ApplyRankings(its, ranks), topN)
  ELSE <<>>

\* a parse failure that is thrown into the retry loop of the oracle call
OnParseFailureRetry(attempt) == IF attempt < Retries - 1 THEN "retry" ELSE "return_empty"

\* the catch block around JSON.parse in rankItemsWithGemini, reached after attempt
\* `attempt` of the oracle call returned text: it logs and returns []
OnParseFailure(attempt) == "return_empty"

\* the oracle request of pass 1 completes.  A reply with text is parsed, applied
\* and filtered and scrapeEbay returns to main; a failed attempt is logged and
\* either backs off or, on the last attempt, is rethrown into scrapeEbay's catch,
\* which logs it and returns []
GeminiResponse ==
  /\ pc = "g_request" /\ variant \in {1, 3}
  /\ inFlight' = Settled(inFlight, "oracle")
  /\ \E outcome \in OracleOutcomes :
       IF outcome = "text"
       THEN \E reply \in Responses(Len(items)) :
              LET parsed == ParseResponse(reply)
                  cfg == searches[i + 1]
                  top == TopItemsOf(variant, items, parsed.rankings, cfg.topN)
              IN /\ oracleOk' = oracleOk + 1
                 /\ parseFailed' = ~parsed.ok
                 /\ IF ~parsed.ok /\ OnParseFailure(gi) = "retry"
                    THEN /\ pc' = "g_backoff"
                         /\ UNCHANGED <<items, topItems>>
                         /\ logMessages' = logMessages \o
                               <<E("parse_failed", 0), E("raw_response", 0)>>
                    ELSE /\ items' = ApplyRankings(items, parsed.rankings)
                         /\ topItems' = top
                         /\ logMessages' = logMessages \o
                              (IF parsed.ok THEN <<>>
                               ELSE <<E("parse_failed", 0), E("raw_response", 0)>>) \o
                              (IF Len(parsed.rankings) = 0
                               THEN OnlyV1(<<E("ai_no_results", 0)>>)
                               ELSE IF Len(top) > 0 THEN OnlyV1(<<E("top_item", 0)>>)
                               ELSE <<>>)
                         /\ pc' = "m_after"
                 /\ UNCHANGED lastErr
       ELSE /\ lastErr' = outcome
            /\ IF OracleGivesUp(gi)
               THEN /\ logMessages' = logMessages \o
                         <<E("gemini_failed", gi + 1), E("ai_failed", 0)>>
                    /\ pc' = "m_after"
               ELSE /\ logMessages' = Append(logMessages, E("gemini_failed", gi + 1))
                    /\ pc' = "g_backoff"
            /\ UNCHANGED <<items, topItems, parseFailed, oracleOk>>
  /\ UNCHANGED <<setup, locals, parsers, thirdRun, i, fi, gi, fetchFor, thrown, waited, results, counters, ending,
                 attempted, outcomes, fetchAttempts, oracleAttempts, enrichment>>

\* await delay(3000 * (i + 1)) completes and the next oracle request is issued
GeminiBackoff ==
  /\ pc = "g_backoff"
  /\ waited' = GeminiBackoffStep * (gi + 1)
  /\ gi' = gi + 1
  /\ inFlight' = inFlight \cup {"oracle"}
  /\ oracleAttempts' = oracleAttempts + 1
  /\ pc' = "g_request"
  /\ lastErr' = "none"
  /\ UNCHANGED <<setup, locals, parsers, thirdRun, i, fi, fetchFor, thrown, items, topItems, parseFailed,
                 results, counters, logMessages, ending, attempted, outcomes,
                 fetchAttempts, oracleOk, enrichment>>

\* ------------------------------------------------------------------------
\* main: the body of the profile loop after scrapeEbay returned or threw
\* ------------------------------------------------------------------------
\* counters that take every return of scrapeEbay for a success
CountReturnLenient(v, top, succ, failed) ==
  IF v = 1 THEN [succ |-> succ + 1, failed |-> failed]
  ELSE [succ |-> succ, failed |-> failed]

\* the counters after scrapeEbay returned topItems (the third variant keeps none)
CountReturn(v, top, succ, failed) ==
  IF v = 1
  THEN IF Len(top) > 0 THEN [succ |-> succ + 1, failed |-> failed]
       ELSE [succ |-> succ, failed |-> failed + 1]
  ELSE [succ |-> succ, failed |-> failed]

\* a catch block that counts nothing
CountRaiseUncounted(v, succ, failed) == [succ |-> succ, failed |-> failed]

\* the counters after main's catch ran
CountRaise(v, succ, failed) ==
  IF v = 1 THEN [succ |-> succ, failed |-> failed + 1]
  ELSE [succ |-> succ, failed |-> failed]

\* if (i < CONFIG.searches.length - 1) await delay(5000)
PacesAfter(idx, n) == idx < n - 1

\* scrapeEbay returned: results and deals are stored, the counters updated, and
\* the loop either starts the pacing delay or moves on
MainAfter ==
  /\ pc = "m_after" /\ variant \in {1, 3}
  /\ LET cfg == searches[i + 1]
         unicorns == Unicorns(topItems, cfg)
         counted == CountReturn(variant, topItems, successfulSearches, failedSearches)
     IN /\ successfulSearches' = counted.succ
        /\ failedSearches' = counted.failed
        /\ allResultsLen' = allResultsLen + Len(topItems)
        /\ unicornDeals' = unicornDeals \o DealsOf(unicorns, cfg)
        /\ logMessages' = logMessages \o
             OnlyV1(IF Len(topItems) = 0 THEN <<E("no_items_main", i + 1)>>
                    ELSE IF Len(unicorns) > 0
                    THEN <<E("unicorns_found", i + 1)>> \o
                         [k \in 1..Len(unicorns) |-> E("unicorn", i + 1)]
                    ELSE <<E("no_unicorns", i + 1)>>) \o
             OnlyV1(IF PacesAfter(i, Len(searches)) THEN <<E("waiting", 0)>> ELSE <<>>)
  /\ IF PacesAfter(i, Len(searches))
     THEN pc' = "m_pace" /\ UNCHANGED i
     ELSE pc' = "m_loop" /\ i' = i + 1
  /\ yielded' = IF Len(topItems) > 0 THEN yielded \cup {i + 1} ELSE yielded
  /\ items' = <<>> /\ topItems' = <<>> /\ lastErr' = "none"
  /\ UNCHANGED <<setup, locals, parsers, thirdRun, fi, gi, fetchFor, thrown, waited, inFlight, parseFailed, ending,
                 attempted, raisedBy, fetchAttempts, oracleHist, enrichment>>

\* await delay(5000) between two profiles completes
MainPace ==
  /\ pc = "m_pace"
  /\ waited' = PacingDelay
  /\ i' = i + 1
  /\ pc' = "m_loop"
  /\ UNCHANGED <<setup, locals, parsers, thirdRun, fi, gi, fetchFor, lastErr, thrown, inFlight, items, topItems,
                 parseFailed, results, counters, logMessages, ending, attempted,
                 outcomes, fetchAttempts, oracleHist, enrichment>>

\* a catch block that leaves the loop
IndexAfterCatchAbort(idx) == Len(searches)

\* the loop index after the catch block ran: the for loop's i++
IndexAfterCatch(idx) == idx + 1

\* the catch block of the loop body: the failure is counted and logged, and the
\* loop moves on without the pacing delay
MainCatch ==
  /\ pc = "m_catch" /\ variant \in {1, 3}
  /\ LET counted == CountRaise(variant, successfulSearches, failedSearches)
     IN /\ successfulSearches' = counted.succ
        /\ failedSearches' = counted.failed
  /\ logMessages' = logMessages \o <<E("profile_error", i + 1)>> \o
                       OnlyV1(<<E("profile_stack", i + 1)>>)
  /\ raisedBy' = raisedBy \cup {i + 1}
  /\ UNCHANGED yielded
  /\ i' = IndexAfterCatch(i)
  /\ pc' = "m_loop"
  /\ items' = <<>> /\ topItems' = <<>> /\ lastErr' = "none" /\ thrown' = "none"
  /\ UNCHANGED <<setup, locals, parsers, thirdRun, fi, gi, fetchFor, waited, inFlight, parseFailed, results,
                 ending, attempted, fetchAttempts, oracleHist, enrichment>>

\* ------------------------------------------------------------------------
\* main after the profile loop, sendEmail
\* ------------------------------------------------------------------------
\* a notifier that is called whatever the deal list holds
NotifiesAlways(deals) == TRUE

\* if (unicornDeals.length > 0) ... await sendEmail(unicornDeals)
Notifies(deals) == Len(deals) > 0

\* the loop is left and the summary logged; with deals sendEmail is called, which
\* in the first variant issues the mail request and in the third runs to its end
\* at once
MainSummary ==
  /\ pc = "m_loop" /\ i >= Len(searches) /\ variant \in {1, 3}
  /\ IF Notifies(unicornDeals)
     THEN /\ emailCalls' = emailCalls + 1
          /\ IF variant = 1
             THEN /\ logMessages' = logMessages \o <<E("summary", 0), E("email_sending", 0)>>
                  /\ inFlight' = inFlight \cup {"mail"}
                  /\ pc' = "e_request"
             ELSE /\ \E sent \in BOOLEAN :
                       logMessages' = logMessages \o
                         <<E("deals_found", 0), E("email_sending", 0),
                           IF sent THEN E("email_sent", 0) ELSE E("email_error", 0)>>
                  /\ pc' = "m_save"
                  /\ UNCHANGED inFlight
     ELSE /\ logMessages' = logMessages \o
               (IF variant = 1 THEN <<E("summary", 0), E("no_deals", 0)>>
                ELSE <<E("deals_found", 0)>>)
          /\ pc' = "m_save"
          /\ UNCHANGED <<emailCalls, inFlight>>
  /\ UNCHANGED <<setup, locals, parsers, thirdRun, i, fi, gi, fetchFor, lastErr, thrown, waited, items, topItems,
                 parseFailed, results, counters, savedLog, exitCode, attempted, outcomes,
                 fetchAttempts, oracleHist, enrichment>>

MailOutcomes == {"ok", "status", "network"}

\* the mail request of the first variant completes; a failure is logged by
\* sendEmail, rethrown, and logged again by main's catch
EmailResponse ==
  /\ pc = "e_request"
  /\ inFlight' = Settled(inFlight, "mail")
  /\ \E outcome \in MailOutcomes :
       logMessages' = logMessages \o
         (CASE outcome = "ok" -> <<E("email_sent", 0)>>
            [] outcome = "status" ->
                 <<E("email_failed", 0), E("email_error", 0), E("email_not_sent", 0)>>
            [] outcome = "network" -> <<E("email_error", 0), E("email_not_sent", 0)>>)
  /\ pc' = "m_save"
  /\ UNCHANGED <<setup, locals, parsers, thirdRun, i, fi, gi, fetchFor, lastErr, thrown, waited, items, topItems,
                 parseFailed, results, counters, ending, attempted, outcomes,
                 fetchAttempts, oracleHist, enrichment>>

\* an exit status that fails the run on any failed search
ExitStatusAnyFailure(v, failed, n) == IF v = 1 /\ failed > 0 THEN 1 ELSE 0

\* the status the process ends with once main has run to its end
ExitStatus(v, failed, n) == IF v = 1 /\ failed = n THEN 1 ELSE 0

\* saveLog(), the closing log line, and the end of the process
MainSave ==
  /\ pc = "m_save"
  /\ \E wrote \in BOOLEAN :
       LET saved == SaveLog(logMessages, wrote)
           status == ExitStatus(variant, failedSearches, Len(searches))
       IN /\ savedLog' = saved.file
          /\ logMessages' = saved.buffer \o <<E("complete", 0)>> \o
                (IF status = 1 THEN <<E("all_failed", 0)>> ELSE <<>>)
          /\ exitCode' = status
  /\ pc' = "done"
  /\ UNCHANGED <<setup, locals, parsers, thirdRun, i, fi, gi, fetchFor, lastErr, thrown, waited, inFlight, items,
                 topItems, parseFailed, results, counters, emailCalls, attempted,
                 outcomes, fetchAttempts, oracleHist, enrichment>>

\* ------------------------------------------------------------------------
\* The run of the first and of the third variant
\* ------------------------------------------------------------------------
Next ==
  \/ MainStart \/ MainLoop
  \/ FetchDelay \/ FetchResponse \/ FetchBackoff
  \/ Extract \/ GeminiResponse \/ GeminiBackoff
  \/ MainAfter \/ MainPace \/ MainCatch
  \/ MainSummary \/ EmailResponse \/ MainSave

Spec == Init /\ [][Next]_vars

\* the same run when every pending request and every running delay completes:
\* each step of Next is the completion of the one thing the run is waiting for.
\* The profiles keep one listing each (topN = 1), which no retry loop looks at.
InitFair == Init /\ \A k \in 1..Len(searches) : searches[k].topN = 1

FairSpec == InitFair /\ [][Next]_vars /\ WF_vars(Next)

TypeOK ==
  /\ variant \in {1, 2, 3, 4}
  /\ exitCode \in {-1, 0, 1}
  /\ i \in 0..Len(searches)
  /\ fi \in 0..(Retries - 1) /\ gi \in 0..(Retries - 1)

\* ------------------------------------------------------------------------
\* The enriching two-pass pipeline of spec.md (sections 4.4 and 4.5).  Its code is
\* not in src/; the actions below follow the specification's text and reuse
\* the fetch loop, the extraction and the oracle backoff of the source.
\* ------------------------------------------------------------------------
\* a shortlisted listing: the Listing with its description, empty until enriched
Shortlisted(it) ==
  [title |-> it.title, price |-> it.price, link |-> it.link, scan |-> it.scan,
   aiScore |-> it.aiScore, aiReasoning |-> it.aiReasoning, description |-> ""]

\* a shortlist of the whole pass-1 top-N
ShortlistAll(top, searchConfig) == [k \in 1..Len(top) |-> Shortlisted(top[k])]

\* shortlist for enrichment: the pass-1 top-N entries meeting the unicorn threshold
ShortlistOf(top, searchConfig) ==
  LET u == Unicorns(top, searchConfig)
  IN [k \in 1..Len(u) |-> Shortlisted(u[k])]

\* what enrich() extracts from a fetched document
Descriptions == {"text"}

\* a placeholder that says nothing
PlaceholderBlank(err) == ""

\* the placeholder enrich() returns for a fetch that failed with `err`
Placeholder(err) ==
  IF err = "status" THEN "Error fetching description: status"
  ELSE "Error fetching description: network"

\* enrich() returned `text` for shortlist[ei]: it is stored, and either the next
\* listing's detail page is requested or the second scoring call is issued
EnrichStored(text) ==
  /\ shortlist' = [shortlist EXCEPT ![ei + 1].description = text]
  /\ IF ei + 1 < Len(shortlist)
     THEN /\ ei' = ei + 1
          /\ fetchFor' = "detail"
          /\ fi' = 0 /\ fetchAttempts' = 0
          /\ detailFetches' = detailFetches + 1
          /\ pc' = "f_delay"
          /\ inFlight' = Settled(inFlight, "fetch")
          /\ UNCHANGED <<gi, pass, oracleAttempts, oracleOk>>
     ELSE /\ pass' = 2
          /\ gi' = 0 /\ oracleAttempts' = 1 /\ oracleOk' = 0
          /\ inFlight' = (Settled(inFlight, "fetch")) \cup {"oracle"}
          /\ pc' = "g_request"
          /\ UNCHANGED <<ei, fetchFor, fi, fetchAttempts, detailFetches>>

\* a request of enrich() completes: the detail page may name a description frame,
\* which is fetched as a second document; a fetch that exhausted its retries
\* yields the placeholder text instead of raising
EnrichFetchResponse ==
  /\ variant = 4 /\ pc = "f_request" /\ fetchFor \in {"detail", "frame"}
  /\ \E outcome \in FetchOutcomes :
       IF outcome = "ok"
       THEN /\ UNCHANGED lastErr
            /\ \/ /\ fetchFor = "detail"
                  /\ fetchFor' = "frame"
                  /\ fi' = 0 /\ fetchAttempts' = 0
                  /\ pc' = "f_delay"
                  /\ inFlight' = Settled(inFlight, "fetch")
                  /\ UNCHANGED <<shortlist, ei, gi, pass, oracleAttempts, oracleOk,
                                 detailFetches>>
               \/ \E text \in Descriptions : EnrichStored(text)
       ELSE /\ lastErr' = outcome
            /\ IF FetchGivesUp(fi)
               THEN EnrichStored(Placeholder(outcome))
               ELSE /\ pc' = "f_backoff"
                    /\ inFlight' = Settled(inFlight, "fetch")
                    /\ UNCHANGED <<shortlist, ei, fetchFor, fi, fetchAttempts, gi, pass,
                                   oracleAttempts, oracleOk, detailFetches>>
  /\ waited' = 0
  /\ UNCHANGED <<setup, locals, parsers, thirdRun, i, thrown, items, topItems, parseFailed, results, counters,
                 logMessages, ending, attempted, outcomes>>

\* a scoring request completes.  Pass 1 filters, sorts and shortlists, and with
\* a shortlist starts the first enrichment; pass 2 re-scores the shortlist as its
\* own batch and re-sorts it.  An oracle call that exhausted its retries raises.
ScorerResponse ==
  /\ variant = 4 /\ pc = "g_request"
  /\ \E outcome \in OracleOutcomes :
       IF outcome = "text"
       THEN \E reply \in Responses(IF pass = 1 THEN Len(items) ELSE Len(shortlist)) :
              LET parsed == ParseResponse(reply)
                  cfg == searches[i + 1]
                  top == TopItemsOf(1, items, parsed.rankings, cfg.topN)
                  short == ShortlistOf(top, cfg)
              IN /\ oracleOk' = oracleOk + 1
                 /\ parseFailed' = ~parsed.ok
                 /\ UNCHANGED <<lastErr, thrown>>
                 /\ IF pass = 1
                    THEN /\ items' = ApplyRankings(items, parsed.rankings)
                         /\ topItems' = top
                         /\ shortlist' = short
                         /\ IF short = <<>>
                            THEN /\ pc' = "m_after"
                                 /\ inFlight' = Settled(inFlight, "oracle")
                                 /\ UNCHANGED <<fetchFor, fi, fetchAttempts, detailFetches>>
                            ELSE /\ fetchFor' = "detail"
                                 /\ fi' = 0 /\ fetchAttempts' = 0
                                 /\ detailFetches' = 1
                                 /\ pc' = "f_delay"
                                 /\ inFlight' = Settled(inFlight, "oracle")
                    ELSE /\ shortlist' = SortDesc(ApplyRankings(shortlist, parsed.rankings))
                         /\ pc' = "m_after"
                         /\ inFlight' = Settled(inFlight, "oracle")
                         /\ UNCHANGED <<items, topItems, fetchFor, fi, fetchAttempts,
                                        detailFetches>>
       ELSE /\ lastErr' = outcome
            /\ inFlight' = Settled(inFlight, "oracle")
            /\ IF OracleGivesUp(gi)
               THEN thrown' = outcome /\ pc' = "m_catch"
               ELSE UNCHANGED thrown /\ pc' = "g_backoff"
            /\ UNCHANGED <<items, topItems, shortlist, parseFailed, oracleOk, fetchFor,
                           fi, fetchAttempts, detailFetches>>
  /\ UNCHANGED <<setup, locals, parsers, thirdRun, i, gi, waited, results, counters, logMessages, ending,
                 attempted, outcomes, oracleAttempts, pass, ei>>

\* a final filter that keeps every shortlisted listing
FinalDealsUnfiltered(short, searchConfig) == DealsOf(short, searchConfig)

\* final filter: the shortlisted listings whose latest score meets the threshold
FinalDeals(short, searchConfig) == DealsOf(Unicorns(short, searchConfig), searchConfig)

\* the profile ran without raising: its deals are aggregated, it counts as a
\* success, and the orchestrator paces before the next profile
OrchestratorAggregate ==
  /\ variant = 4 /\ pc = "m_after"
  /\ unicornDeals' = unicornDeals \o FinalDeals(shortlist, searches[i + 1])
  /\ successfulSearches' = successfulSearches + 1
  /\ yielded' = IF Len(topItems) > 0 THEN yielded \cup {i + 1} ELSE yielded
  /\ IF PacesAfter(i, Len(searches))
     THEN pc' = "m_pace" /\ UNCHANGED i
     ELSE pc' = "m_loop" /\ i' = i + 1
  /\ items' = <<>> /\ lastErr' = "none"
  /\ UNCHANGED <<setup, locals, parsers, thirdRun, fi, gi, fetchFor, thrown, waited, inFlight, topItems, parseFailed,
                 allResultsLen, failedSearches, logMessages, ending, attempted, raisedBy,
                 fetchAttempts, oracleHist, enrichment>>

\* the profile raised (results fetch or oracle call exhausted): it is logged and
\* counted as a failure, and the next profile is processed
OrchestratorCatch ==
  /\ variant = 4 /\ pc = "m_catch"
  /\ failedSearches' = failedSearches + 1
  /\ raisedBy' = raisedBy \cup {i + 1}
  /\ i' = i + 1
  /\ pc' = "m_loop"
  /\ items' = <<>> /\ lastErr' = "none" /\ thrown' = "none"
  /\ UNCHANGED <<setup, locals, parsers, thirdRun, fi, gi, fetchFor, waited, inFlight, topItems, parseFailed,
                 results, successfulSearches, logMessages, ending, attempted, yielded,
                 fetchAttempts, oracleHist, enrichment>>

\* every profile was processed: the run is a failure when every profile failed
OrchestratorEnd ==
  /\ variant = 4 /\ pc = "m_loop" /\ i >= Len(searches)
  /\ exitCode' = IF failedSearches = Len(searches) THEN 1 ELSE 0
  /\ pc' = "done"
  /\ UNCHANGED <<setup, locals, parsers, thirdRun, i, fi, gi, fetchFor, lastErr, thrown, waited, inFlight, items,
                 topItems, parseFailed, results, counters, logMessages, savedLog,
                 emailCalls, attempted, outcomes, fetchAttempts, oracleHist, enrichment>>

InitEnrich == InitRun({4})

NextEnrich ==
  \/ MainStart \/ MainLoop
  \/ FetchDelay \/ FetchResponse \/ FetchBackoff
  \/ Extract \/ GeminiBackoff \/ MainPace
  \/ EnrichFetchResponse \/ ScorerResponse
  \/ OrchestratorAggregate \/ OrchestratorCatch \/ OrchestratorEnd

SpecEnrich == InitEnrich /\ [][NextEnrich]_vars

\* ------------------------------------------------------------------------
\* The pass-1 filter on its own: any scored batch, any topN, each variant
\* ------------------------------------------------------------------------
\* scores around the thresholds of the filters (20 and 30)
FilterScores == {0, 20, 21, 30, 88}

ScoredItem(score) ==
  [title |-> "item", price |-> "AU $100", link |-> "itm/", scan |-> 1,
   aiScore |-> score, aiReasoning |-> IF score = 0 THEN "" ELSE ReasonOf(score)]

Batches ==
  UNION {{[k \in 1..len |-> ScoredItem(f[k])] : f \in [1..len -> FilterScores]}
         : len \in 0..MaxBatch}

InitFilter ==
  /\ variant \in {1, 2, 3}
  /\ configValid = TRUE
  /\ \E topN \in 1..MaxTopN : searches = SearchesOf(1, topN)
  /\ pc = "filter"
  /\ items \in Batches
  /\ i = 0 /\ fi = 0 /\ gi = 0
  /\ fetchFor = "none" /\ lastErr = "none" /\ thrown = "none"
  /\ waited = 0 /\ inFlight = {}
  /\ topItems = <<>> /\ parseFailed = FALSE /\ rankings = <<>>
  /\ response = <<>> /\ containers = <<>>
  /\ unicornDeals = <<>> /\ allResultsLen = 0
  /\ successfulSearches = 0 /\ failedSearches = 0
  /\ logMessages = <<>> /\ savedLog = <<E("none", 0)>>
  /\ timeStr = JsNull /\ minutes = JsNull /\ priceStr = JsNull /\ priceNumeric = JsNull
  /\ topItems3 = <<>> /\ unicornDeals3 = <<>> /\ exitCode3 = -1
  /\ exitCode = -1 /\ emailCalls = 0
  /\ attempted = <<>> /\ raisedBy = {} /\ yielded = {}
  /\ fetchAttempts = 0 /\ oracleAttempts = 0 /\ oracleOk = 0
  /\ detailFetches = 0 /\ pass = 0 /\ shortlist = <<>> /\ ei = 0

\* the filter statements of scrapeEbay applied to the scored items
ApplyFilter ==
  /\ pc = "filter"
  /\ topItems' = Pass1Filter(variant, items, searches[1].topN)
  /\ pc' = "filtered"
  /\ UNCHANGED <<setup, locals, parsers, thirdRun, i, fi, gi, fetchFor, lastErr, thrown, waited, inFlight, items,
                 parseFailed, results, counters, logMessages, ending, attempted, outcomes,
                 fetchAttempts, oracleHist, enrichment>>

\* the same statements applied to the listings they returned
ReapplyFilter ==
  /\ pc = "filtered"
  /\ topItems' = Pass1Filter(variant, topItems, searches[1].topN)
  /\ pc' = "refiltered"
  /\ UNCHANGED <<setup, locals, parsers, thirdRun, i, fi, gi, fetchFor, lastErr, thrown, waited, inFlight, items,
                 parseFailed, results, counters, logMessages, ending, attempted, outcomes,
                 fetchAttempts, oracleHist, enrichment>>

NextFilter == ApplyFilter \/ ReapplyFilter

SpecFilter == InitFilter /\ [][NextFilter]_vars

\* ------------------------------------------------------------------------
\* The scorer on its own: rankItemsWithGemini called with any batch, the
\* oracle call it makes, and the caller applying the rankings it returns
\* ------------------------------------------------------------------------
\* the batches the extraction produces for one page
ExtractedBatches == {ExtractItems(page, 1) : page \in Pages}

InitScore ==
  /\ variant \in {1, 2, 3}
  /\ configValid = TRUE
  /\ searches = SearchesOf(1, 1)
  /\ pc = "r_call"
  /\ items \in ExtractedBatches
  /\ i = 0 /\ fi = 0 /\ gi = 0
  /\ fetchFor = "none" /\ lastErr = "none" /\ thrown = "none"
  /\ waited = 0 /\ inFlight = {}
  /\ topItems = <<>> /\ parseFailed = FALSE /\ rankings = <<>>
  /\ response = <<>> /\ containers = <<>>
  /\ unicornDeals = <<>> /\ allResultsLen = 0
  /\ successfulSearches = 0 /\ failedSearches = 0
  /\ logMessages = <<>> /\ savedLog = <<E("none", 0)>>
  /\ timeStr = JsNull /\ minutes = JsNull /\ priceStr = JsNull /\ priceNumeric = JsNull
  /\ topItems3 = <<>> /\ unicornDeals3 = <<>> /\ exitCode3 = -1
  /\ exitCode = -1 /\ emailCalls = 0
  /\ attempted = <<>> /\ raisedBy = {} /\ yielded = {}
  /\ fetchAttempts = 0 /\ oracleAttempts = 0 /\ oracleOk = 0
  /\ detailFetches = 0 /\ pass = 0 /\ shortlist = <<>> /\ ei = 0

\* a scorer that submits every batch, the empty one included
RankItemsEntryAlwaysCalls(its) == "call_oracle"

\* rankItemsWithGemini, first statement: if (items.length === 0) return []
RankItemsEntry(its) == IF Len(its) = 0 THEN "return_empty" ELSE "call_oracle"

\* rankItemsWithGemini is entered: an empty batch returns [] at once, any other
\* batch builds the prompt and issues the first oracle request
RankCall ==
  /\ pc = "r_call"
  /\ IF RankItemsEntry(items) = "return_empty"
     THEN /\ pc' = "r_returned"
          /\ UNCHANGED <<inFlight, oracleAttempts>>
     ELSE /\ pc' = "g_request"
          /\ inFlight' = inFlight \cup {"oracle"}
          /\ oracleAttempts' = 1
  /\ UNCHANGED <<setup, parsers, thirdRun, response, i, fi, gi, fetchFor, lastErr, thrown, waited, items, topItems,
                 parseFailed, rankings, results, counters, logMessages, ending, attempted,
                 outcomes, fetchAttempts, oracleOk, enrichment>>

\* the oracle request completes.  A reply with text leaves callGeminiAPI and is
\* parsed, and rankItemsWithGemini returns the rankings, or [] from the catch
\* around JSON.parse; a failed attempt is logged and either backs off or, on the
\* last attempt, is rethrown to the caller of rankItemsWithGemini
RankResponse ==
  /\ pc = "g_request"
  /\ inFlight' = Settled(inFlight, "oracle")
  /\ \E outcome \in OracleOutcomes :
       IF outcome = "text"
       THEN \E reply \in Responses(Len(items)) :
              LET parsed == ParseResponse(reply) IN
              /\ oracleOk' = oracleOk + 1
              /\ parseFailed' = ~parsed.ok
              /\ logMessages' = Logged(IF parsed.ok THEN <<>>
                                       ELSE <<E("parse_failed", 0), E("raw_response", 0)>>)
              /\ IF ~parsed.ok /\ OnParseFailure(gi) = "retry"
                 THEN pc' = "g_backoff" /\ UNCHANGED rankings
                 ELSE pc' = "r_returned" /\ rankings' = parsed.rankings
              /\ UNCHANGED <<lastErr, thrown>>
       ELSE /\ lastErr' = outcome
            /\ logMessages' = Logged(<<E("gemini_failed", gi + 1)>>)
            /\ IF OracleGivesUp(gi)
               THEN thrown' = outcome /\ pc' = "r_raised"
               ELSE UNCHANGED thrown /\ pc' = "g_backoff"
            /\ UNCHANGED <<parseFailed, oracleOk, rankings>>
  /\ UNCHANGED <<setup, parsers, thirdRun, response, i, fi, gi, fetchFor, waited, items, topItems, results, counters,
                 ending, attempted, outcomes, fetchAttempts, oracleAttempts, enrichment>>

\* scrapeEbay applies the returned rankings: if (rankings.length > 0)
\* rankings.forEach(...)
ApplyReturned ==
  /\ pc = "r_returned"
  /\ items' = IF Len(rankings) > 0 THEN ApplyRankings(items, rankings) ELSE items
  /\ pc' = "r_applied"
  /\ UNCHANGED <<setup, parsers, thirdRun, response, i, fi, gi, fetchFor, lastErr, thrown, waited, inFlight, topItems,
                 parseFailed, rankings, results, counters, logMessages, ending, attempted,
                 outcomes, fetchAttempts, oracleHist, enrichment>>

\* scrapeEbay filters the scored listings and returns them, or returns [] when
\* there were no rankings, and main pushes those that meet the profile's
\* threshold onto the deal list
CollectReturned ==
  /\ pc = "r_applied"
  /\ pc' = "r_collected"
  /\ topItems' = IF Len(rankings) > 0
                 THEN Pass1Filter(variant, items, searches[1].topN)
                 ELSE <<>>
  /\ unicornDeals' = unicornDeals \o DealsOf(Unicorns(topItems', searches[1]), searches[1])
  /\ allResultsLen' = allResultsLen + Len(topItems')
  /\ UNCHANGED <<setup, locals, parsers, thirdRun, i, fi, gi, fetchFor, lastErr, thrown, waited, inFlight,
                 items, parseFailed, counters, logMessages, ending, attempted, outcomes,
                 fetchAttempts, oracleHist, enrichment>>

NextScore == RankCall \/ RankResponse \/ GeminiBackoff \/ ApplyReturned \/ CollectReturned

SpecScore == InitScore /\ [][NextScore]_vars

\* the scored batch is handed to the scorer once more, as the second pass of
\* spec.md does with the listings it kept
RankAgain ==
  /\ pc = "r_applied" /\ pass = 0
  /\ pass' = 2
  /\ pc' = "r_call"
  /\ gi' = 0 /\ oracleAttempts' = 0 /\ oracleOk' = 0
  /\ parseFailed' = FALSE /\ rankings' = <<>> /\ lastErr' = "none"
  /\ UNCHANGED <<setup, parsers, thirdRun, response, i, fi, fetchFor, thrown, waited, inFlight, items,
                 topItems, results, counters, logMessages, ending, attempted, outcomes,
                 fetchAttempts, detailFetches, shortlist, ei>>

NextRescore == NextScore \/ RankAgain

SpecRescore == InitScore /\ [][NextRescore]_vars

\* ------------------------------------------------------------------------
\* The parsing of a reply on its own: rankItemsWithGemini after the oracle
\* call returned, for replies in and out of a fenced block
\* ------------------------------------------------------------------------
\* how a reply may wrap its body: not at all; in a fenced block tagged json, with
\* or without line breaks, with a blank after the tag, or with whitespace around
\* the block; in an untagged fenced block; in a block with another language tag
\* (JSON, js, ...)
Wrappings == {"bare", "json", "json_tight", "json_blank", "json_padded", "plain", "other"}

Wrap(kind, b) ==
  CASE kind = "bare" -> <<b>>
    [] kind = "json" -> Fenced(b)
    [] kind = "json_tight" -> <<Tok("fence"), Tok("jsontag"), b, Tok("fence")>>
    [] kind = "json_blank" ->
         <<Tok("fence"), Tok("jsontag"), Tok("sp"), Tok("nl"), b, Tok("nl"), Tok("fence")>>
    [] kind = "json_padded" -> <<Tok("sp"), Tok("nl")>> \o Fenced(b) \o <<Tok("nl"), Tok("sp")>>
    [] kind = "plain" -> <<Tok("fence"), Tok("nl"), b, Tok("nl"), Tok("fence")>>
    [] kind = "other" ->
         <<Tok("fence"), Tok("othertag"), Tok("nl"), b, Tok("nl"), Tok("fence")>>

\* the replies for a batch of one listing, in every wrapping
WrappedReplies == {Wrap(kind, b) : kind \in Wrappings, b \in Bodies(1)}

InitParse ==
  /\ variant \in {1, 2, 3}
  /\ configValid = TRUE
  /\ searches = SearchesOf(1, 1)
  /\ pc = "p_reply"
  /\ response \in WrappedReplies /\ containers = <<>>
  /\ items = <<>>
  /\ i = 0 /\ fi = 0 /\ gi = 0
  /\ fetchFor = "none" /\ lastErr = "none" /\ thrown = "none"
  /\ waited = 0 /\ inFlight = {}
  /\ topItems = <<>> /\ parseFailed = FALSE /\ rankings = <<>>
  /\ unicornDeals = <<>> /\ allResultsLen = 0
  /\ successfulSearches = 0 /\ failedSearches = 0
  /\ logMessages = <<>> /\ savedLog = <<E("none", 0)>>
  /\ timeStr = JsNull /\ minutes = JsNull /\ priceStr = JsNull /\ priceNumeric = JsNull
  /\ topItems3 = <<>> /\ unicornDeals3 = <<>> /\ exitCode3 = -1
  /\ exitCode = -1 /\ emailCalls = 0
  /\ attempted = <<>> /\ raisedBy = {} /\ yielded = {}
  /\ fetchAttempts = 0 /\ oracleAttempts = 0 /\ oracleOk = 0
  /\ detailFetches = 0 /\ pass = 0 /\ shortlist = <<>> /\ ei = 0

\* rankItemsWithGemini from `let jsonStr = response.trim()` to its return
ParseReply ==
  /\ pc = "p_reply"
  /\ LET parsed == ParseResponse(response)
     IN /\ rankings' = parsed.rankings
        /\ parseFailed' = ~parsed.ok
        /\ logMessages' = Logged(IF parsed.ok THEN <<>>
                                 ELSE <<E("parse_failed", 0), E("raw_response", 0)>>)
  /\ pc' = "p_returned"
  /\ UNCHANGED <<setup, parsers, thirdRun, response, i, fi, gi, fetchFor, lastErr, thrown, waited, inFlight,
                 items, topItems, results, counters, ending, attempted, outcomes,
                 fetchAttempts, oracleHist, enrichment>>

NextParse == ParseReply

SpecParse == InitParse /\ [][NextParse]_vars

\* ------------------------------------------------------------------------
\* The extraction on its own: containers.forEach of scrapeEbay on any page
\* ------------------------------------------------------------------------
\* what the selectors of one container may resolve to: the title element missing
\* ('N/A'), an ad placeholder in three spellings, or a listing title; the price
\* element missing or present; the link element missing ('#'), with an href
\* without the item path, or with one
PageContainers ==
  [title : {"N/A", "Shop on eBay", "SHOP ON EBAY", "More - Shop on eBay", "item"},
   price : {"N/A", "AU $100"},
   link : {"#", "https://www.ebay.com.au/p/1", "https://www.ebay.com.au/itm/1"}]

AnyPages == UNION {[1..len -> PageContainers] : len \in 0..MaxContainers}

InitExtract ==
  /\ variant \in {1, 2, 3}
  /\ configValid = TRUE
  /\ searches = SearchesOf(1, 1)
  /\ containers \in AnyPages
  /\ pc = "x_page"
  /\ items = <<>>
  /\ i = 0 /\ fi = 0 /\ gi = 0
  /\ fetchFor = "none" /\ lastErr = "none" /\ thrown = "none"
  /\ waited = 0 /\ inFlight = {}
  /\ topItems = <<>> /\ parseFailed = FALSE /\ rankings = <<>> /\ response = <<>>
  /\ unicornDeals = <<>> /\ allResultsLen = 0
  /\ successfulSearches = 0 /\ failedSearches = 0
  /\ logMessages = <<>> /\ savedLog = <<E("none", 0)>>
  /\ timeStr = JsNull /\ minutes = JsNull /\ priceStr = JsNull /\ priceNumeric = JsNull
  /\ topItems3 = <<>> /\ unicornDeals3 = <<>> /\ exitCode3 = -1
  /\ exitCode = -1 /\ emailCalls = 0
  /\ attempted = <<>> /\ raisedBy = {} /\ yielded = {}
  /\ fetchAttempts = 0 /\ oracleAttempts = 0 /\ oracleOk = 0
  /\ detailFetches = 0 /\ pass = 0 /\ shortlist = <<>> /\ ei = 0

\* let items = []; containers.forEach(...); log(`Extracted ...`)
ExtractPage ==
  /\ pc = "x_page"
  /\ items' = ExtractItems(containers, 1)
  /\ logMessages' = Logged(<<E("containers", 0), E("extracted", 0)>>)
  /\ pc' = "x_extracted"
  /\ UNCHANGED <<setup, locals, parsers, thirdRun, i, fi, gi, fetchFor, lastErr, thrown, waited, inFlight,
                 topItems, parseFailed, results, counters, ending, attempted, outcomes,
                 fetchAttempts, oracleHist, enrichment>>

NextExtract == ExtractPage

SpecExtract == InitExtract /\ [][NextExtract]_vars

\* ------------------------------------------------------------------------
\* parseTimeLeft on its own, for every time text of the bounded vocabulary
\* ------------------------------------------------------------------------
DigitChars == <<"0", "1", "2", "3", "4", "5", "6", "7", "8", "9">>
IsDigit(c) == \E k \in 1..10 : DigitChars[k] = c
DigitValue(c) == (CHOOSE k \in 1..10 : DigitChars[k] = c) - 1

\* parseInt of a run of digits
RECURSIVE ParseInt(_)
ParseInt(run) ==
  IF Len(run) = 0 THEN 0
  ELSE ParseInt(SubSeq(run, 1, Len(run) - 1)) * 10 + DigitValue(run[Len(run)])

\* the decimal text of a number
RECURSIVE Digits(_)
Digits(n) ==
  IF n < 10 THEN <<DigitChars[n + 1]>>
  ELSE Digits(n \div 10) \o <<DigitChars[(n % 10) + 1]>>

\* the start of the run of digits that ends at position k
RunStart(s, k) ==
  CHOOSE p \in 1..k :
    /\ \A q \in p..k : IsDigit(s[q])
    /\ p = 1 \/ ~IsDigit(s[p - 1])

\* a pattern that captures one digit only: /(\d)u/
UnitMatchOneDigit(s, unit) ==
  LET ends == {k \in 2..Len(s) : s[k] = unit /\ IsDigit(s[k - 1])}
  IN IF ends = {} THEN <<>>
     ELSE LET k == CHOOSE e \in ends : \A o \in ends : e <= o
          IN <<SubSeq(s, k - 1, k - 1)>>

\* s.match(/(\d+)u/) for the unit letter u: <<>> without a match, else the
\* captured digits of the leftmost match
UnitMatch(s, unit) ==
  LET ends == {k \in 2..Len(s) : s[k] = unit /\ IsDigit(s[k - 1])}
  IN IF ends = {} THEN <<>>
     ELSE LET k == CHOOSE e \in ends : \A o \in ends : e <= o
          IN <<SubSeq(s, RunStart(s, k - 1), k - 1)>>

NASentinel == <<"N", "/", "A">>

\* parseTimeLeft(timeStr)
ParseTimeLeft(ts) ==
  IF ts = JsNull \/ ts.s = <<>> \/ ts.s = NASentinel THEN JsNull
  ELSE LET daysMatch == UnitMatch(ts.s, "d")
           hoursMatch == UnitMatch(ts.s, "h")
           minsMatch == UnitMatch(ts.s, "m")
       IN Num((IF daysMatch # <<>> THEN ParseInt(daysMatch[1]) * 24 * 60 ELSE 0) +
              (IF hoursMatch # <<>> THEN ParseInt(hoursMatch[1]) * 60 ELSE 0) +
              (IF minsMatch # <<>> THEN ParseInt(minsMatch[1]) ELSE 0))

\* a component of a time text: absent, or a number up to MaxTimePart
NoPart == 0 - 1
TimeParts == {NoPart, 0, 3, 15, MaxTimePart}

Component(n, unit) == IF n = NoPart THEN <<>> ELSE Digits(n) \o <<unit>>

Joined(a, b) == IF a = <<>> THEN b ELSE IF b = <<>> THEN a ELSE a \o <<" ">> \o b

\* the time text of a listing: "2d 3h 15m" with any component left out
TimeText(d, h, m) == Joined(Joined(Component(d, "d"), Component(h, "h")), Component(m, "m"))

TimeTexts ==
  {JsNull, Str(NASentinel)} \cup
  {Str(TimeText(d, h, m)) : d \in TimeParts, h \in TimeParts, m \in TimeParts}

InitTime ==
  /\ variant \in {1, 2, 3}
  /\ configValid = TRUE
  /\ searches = SearchesOf(1, 1)
  /\ timeStr \in TimeTexts
  /\ pc = "t_call"
  /\ minutes = JsNull /\ priceStr = JsNull /\ priceNumeric = JsNull
  /\ topItems3 = <<>> /\ unicornDeals3 = <<>> /\ exitCode3 = -1
  /\ containers = <<>> /\ items = <<>>
  /\ i = 0 /\ fi = 0 /\ gi = 0
  /\ fetchFor = "none" /\ lastErr = "none" /\ thrown = "none"
  /\ waited = 0 /\ inFlight = {}
  /\ topItems = <<>> /\ parseFailed = FALSE /\ rankings = <<>> /\ response = <<>>
  /\ unicornDeals = <<>> /\ allResultsLen = 0
  /\ successfulSearches = 0 /\ failedSearches = 0
  /\ logMessages = <<>> /\ savedLog = <<E("none", 0)>>
  /\ exitCode = -1 /\ emailCalls = 0
  /\ attempted = <<>> /\ raisedBy = {} /\ yielded = {}
  /\ fetchAttempts = 0 /\ oracleAttempts = 0 /\ oracleOk = 0
  /\ detailFetches = 0 /\ pass = 0 /\ shortlist = <<>> /\ ei = 0

\* timeLeftMinutes: parseTimeLeft(item.timeLeft)
ParseTime ==
  /\ pc = "t_call"
  /\ minutes' = ParseTimeLeft(timeStr)
  /\ pc' = "t_returned"
  /\ UNCHANGED <<setup, locals, thirdRun, timeStr, priceStr, priceNumeric, i, fi, gi, fetchFor, lastErr,
                 thrown, waited, inFlight, items, topItems, parseFailed, results, counters,
                 logMessages, ending, attempted, outcomes, fetchAttempts, oracleHist,
                 enrichment>>

NextTime == ParseTime

SpecTime == InitTime /\ [][NextTime]_vars

\* ------------------------------------------------------------------------
\* extractPrice on its own, for every price text of the bounded vocabulary
\* ------------------------------------------------------------------------
\* the value of a text that is not a number
NaN == [t |-> "nan"]

Lower(c) ==
  CASE c = "A" -> "a" [] c = "U" -> "u" [] c = "T" -> "t" [] c = "O" -> "o"
    [] OTHER -> c

\* the end of the longest run of [\d,] that starts at p, p - 1 when there is none
NumCharsEnd(s, p) ==
  CHOOSE q \in (p - 1)..Len(s) :
    /\ \A k \in p..q : IsDigit(s[k]) \/ s[k] = ","
    /\ q = Len(s) \/ ~(IsDigit(s[q + 1]) \/ s[q + 1] = ",")

\* the end of the longest run of \d that starts at p, p - 1 when there is none
DigitsEnd(s, p) ==
  CHOOSE q \in (p - 1)..Len(s) :
    /\ \A k \in p..q : IsDigit(s[k])
    /\ q = Len(s) \/ ~IsDigit(s[q + 1])

\* the end of the match of /[\d,]+\.?\d*/ anchored at p, 0 without a match
NumberEndAt(s, p) ==
  LET a == NumCharsEnd(s, p)
  IN IF p > Len(s) \/ a < p THEN 0
     ELSE LET b == IF a + 1 <= Len(s) /\ s[a + 1] = "." THEN a + 1 ELSE a
          IN DigitsEnd(s, b + 1)

\* priceStr.match(/[\d,]+\.?\d*/): <<>> without a match, else the leftmost match
FirstNumber(s) ==
  LET starts == {p \in 1..Len(s) : NumberEndAt(s, p) > 0}
  IN IF starts = {} THEN <<>>
     ELSE LET p == CHOOSE a \in starts : \A b \in starts : a <= b
          IN <<SubSeq(s, p, NumberEndAt(s, p))>>

\* \s* from p on
SkipWs(s, p) == CHOOSE q \in p..(Len(s) + 1) :
                  /\ \A k \in p..(q - 1) : s[k] = " "
                  /\ q = Len(s) + 1 \/ s[q] # " "

\* \$? from p on
SkipDollar(s, p) == IF p <= Len(s) /\ s[p] = "$" THEN p + 1 ELSE p

\* a literal of the pattern at p, letters compared as the i flag does
LitAt(s, p, lit) ==
  /\ p + Len(lit) - 1 <= Len(s)
  /\ \A k \in 1..Len(lit) : Lower(s[p + k - 1]) = lit[k]

\* the range pattern anchored at p: <<>> without a match, else its first group
RangeGroupAt(s, p) ==
  IF ~LitAt(s, p, <<"a", "u">>) THEN <<>>
  ELSE LET n1 == SkipDollar(s, SkipWs(s, p + 2))
           e1 == NumberEndAt(s, n1)
       IN IF e1 = 0 THEN <<>>
          ELSE LET t == SkipWs(s, e1 + 1)
               IN IF ~LitAt(s, t, <<"t", "o">>) THEN <<>>
                  ELSE LET a2 == SkipWs(s, t + 2)
                       IN IF ~LitAt(s, a2, <<"a", "u">>) THEN <<>>
                          ELSE IF NumberEndAt(s, SkipDollar(s, SkipWs(s, a2 + 2))) = 0
                               THEN <<>>
                               ELSE <<SubSeq(s, n1, e1)>>

\* priceStr.match(/AU\s*\$?([\d,]+\.?\d*)\s*to\s*AU\s*\$?([\d,]+\.?\d*)/i)
RangeMatch(s) ==
  LET starts == {p \in 1..Len(s) : RangeGroupAt(s, p) # <<>>}
  IN IF starts = {} THEN <<>>
     ELSE RangeGroupAt(s, CHOOSE a \in starts : \A b \in starts : a <= b)

\* .replace(/,/g, '')
WithoutCommas(s) == SelectSeq(s, LAMBDA c : c # ",")

\* parseFloat of a text of digits with at most one dot, in hundredths; a text
\* without a digit is not a number
ParseFloat(s) ==
  LET a == DigitsEnd(s, 1)
      frac == IF a + 1 <= Len(s) /\ s[a + 1] = "."
              THEN SubSeq(s, a + 2, DigitsEnd(s, a + 2)) ELSE <<>>
  IN IF a = 0 /\ frac = <<>> THEN NaN
     ELSE Num(ParseInt(SubSeq(s, 1, a)) * 100 +
              (IF Len(frac) = 0 THEN 0
               ELSE IF Len(frac) = 1 THEN ParseInt(frac) * 10
               ELSE ParseInt(SubSeq(frac, 1, 2))))

\* extractPrice(priceStr)
ExtractPrice(ps) ==
  IF ps = JsNull \/ ps.s = <<>> THEN JsNull
  ELSE LET rangeMatch == RangeMatch(ps.s)
           match == FirstNumber(ps.s)
       IN IF rangeMatch # <<>> THEN ParseFloat(WithoutCommas(rangeMatch[1]))
          ELSE IF match = <<>> THEN JsNull
          ELSE ParseFloat(WithoutCommas(match[1]))

\* decimal numbers as they are printed, with their value in hundredths
PriceNumbers ==
  {[s |-> <<"1", "0", "0">>, v |-> 10000],
   [s |-> <<"1", "5", "0">>, v |-> 15000],
   [s |-> <<"2", "0", ".", "5">>, v |-> 2050],
   [s |-> <<"1", ",", "2", "3", "4", ".", "5", "0">>, v |-> 123450]}

\* what precedes a number: nothing, the currency in either case, the sign alone
Currencies == {<<>>, <<"A", "U", " ", "$">>, <<"a", "u", "$">>, <<"$">>}

\* what a price text may start with: nothing, or words that end in a comma
Leads == {<<>>, <<"N", "o", "w", ",", " ">>}

\* texts without a digit
Wordings == {<<"F", "r", "e", "e">>, NASentinel}

SingleText(lead, cur, x) == lead \o cur \o x.s
RangeText(lead, cur, sep, x, y) == lead \o cur \o x.s \o sep \o cur \o y.s

Separators == {<<" ", "t", "o", " ">>, <<" ", "T", "O", " ">>}

PriceTexts ==
  {JsNull, Str(<<>>)} \cup
  {Str(SingleText(lead, cur, x)) : lead \in Leads, cur \in Currencies, x \in PriceNumbers} \cup
  {Str(RangeText(lead, cur, sep, x, y)) :
     lead \in Leads, cur \in Currencies, sep \in Separators,
     x \in PriceNumbers, y \in PriceNumbers} \cup
  {Str(lead \o w) : lead \in Leads, w \in Wordings}

InitPrice ==
  /\ variant \in {1, 2, 3}
  /\ configValid = TRUE
  /\ searches = SearchesOf(1, 1)
  /\ priceStr \in PriceTexts
  /\ pc = "p_call"
  /\ minutes = JsNull /\ timeStr = JsNull /\ priceNumeric = JsNull
  /\ topItems3 = <<>> /\ unicornDeals3 = <<>> /\ exitCode3 = -1
  /\ containers = <<>> /\ items = <<>>
  /\ i = 0 /\ fi = 0 /\ gi = 0
  /\ fetchFor = "none" /\ lastErr = "none" /\ thrown = "none"
  /\ waited = 0 /\ inFlight = {}
  /\ topItems = <<>> /\ parseFailed = FALSE /\ rankings = <<>> /\ response = <<>>
  /\ unicornDeals = <<>> /\ allResultsLen = 0
  /\ successfulSearches = 0 /\ failedSearches = 0
  /\ logMessages = <<>> /\ savedLog = <<E("none", 0)>>
  /\ exitCode = -1 /\ emailCalls = 0
  /\ attempted = <<>> /\ raisedBy = {} /\ yielded = {}
  /\ fetchAttempts = 0 /\ oracleAttempts = 0 /\ oracleOk = 0
  /\ detailFetches = 0 /\ pass = 0 /\ shortlist = <<>> /\ ei = 0

\* const priceNumeric = extractPrice(deal.item.price)
ParsePrice ==
  /\ pc = "p_call"
  /\ priceNumeric' = ExtractPrice(priceStr)
  /\ pc' = "p_priced"
  /\ UNCHANGED <<setup, locals, thirdRun, timeStr, minutes, priceStr, i, fi, gi, fetchFor, lastErr,
                 thrown, waited, inFlight, items, topItems, parseFailed, results, counters,
                 logMessages, ending, attempted, outcomes, fetchAttempts, oracleHist,
                 enrichment>>

NextPrice == ParsePrice

SpecPrice == InitPrice /\ [][NextPrice]_vars

\* ------------------------------------------------------------------------
\* The first and the third program side by side: both are given the same
\* profiles and, call by call, the same outcomes of the results fetch and of
\* the oracle.  topItems, unicornDeals, the counters and exitCode belong to
\* the first program (lines 1-780), topItems3, unicornDeals3 and exitCode3 to
\* the third (lines 1185-1563)
\* ------------------------------------------------------------------------
InitPair ==
  /\ variant = 1
  /\ configValid = TRUE
  /\ \E n \in 1..MaxProfiles, topN \in 1..MaxTopN : searches = SearchesOf(n, topN)
  /\ pc = "x_fetch"
  /\ i = 0 /\ fi = 0 /\ gi = 0
  /\ fetchFor = "none" /\ lastErr = "none" /\ thrown = "none"
  /\ waited = 0 /\ inFlight = {}
  /\ items = <<>> /\ topItems = <<>> /\ parseFailed = FALSE /\ rankings = <<>>
  /\ response = <<>> /\ containers = <<>>
  /\ unicornDeals = <<>> /\ allResultsLen = 0
  /\ successfulSearches = 0 /\ failedSearches = 0
  /\ logMessages = <<>> /\ savedLog = <<E("none", 0)>>
  /\ timeStr = JsNull /\ minutes = JsNull /\ priceStr = JsNull /\ priceNumeric = JsNull
  /\ topItems3 = <<>> /\ unicornDeals3 = <<>> /\ exitCode3 = -1
  /\ exitCode = -1 /\ emailCalls = 0
  /\ attempted = <<>> /\ raisedBy = {} /\ yielded = {}
  /\ fetchAttempts = 0 /\ oracleAttempts = 0 /\ oracleOk = 0
  /\ detailFetches = 0 /\ pass = 0 /\ shortlist = <<>> /\ ei = 0

\* both mains call scrapeEbay for the next profile and fetchWithDelay runs with
\* the attempt outcomes outs: it returns the page at the first "ok", or rethrows
\* out of scrapeEbay once an attempt that gives up failed.  The page is
\* extracted; with no valid listing both scrapeEbay return [] at once
PairFetch ==
  /\ pc = "x_fetch" /\ i < Len(searches)
  /\ \E outs \in [1..Retries -> FetchOutcomes], page \in Pages :
       LET returned == \E k \in 1..Retries :
                         /\ outs[k] = "ok"
                         /\ \A j \in 1..(k - 1) : outs[j] # "ok" /\ ~FetchGivesUp(j - 1)
           its == ExtractItems(page, i + 1)
       IN IF returned
          THEN /\ items' = its
               /\ thrown' = "none"
               /\ pc' = IF CallsOracle(its) THEN "x_score" ELSE "x_collect"
          ELSE /\ items' = <<>>
               /\ thrown' = outs[Retries]
               /\ pc' = "x_collect"
  /\ topItems' = <<>> /\ topItems3' = <<>>
  /\ attempted' = Append(attempted, i + 1)
  /\ UNCHANGED <<setup, locals, parsers, i, fi, gi, fetchFor, lastErr, waited, inFlight, parseFailed,
                 results, counters, logMessages, ending, outcomes, fetchAttempts, oracleHist,
                 enrichment, unicornDeals3, exitCode3>>

\* callGeminiAPI runs with the attempt outcomes outs; the reply of the first
\* attempt that returned text is parsed, applied and filtered by each program's
\* scrapeEbay; a call that gave up ends in each scrapeEbay's catch, which
\* returns []
PairScore ==
  /\ pc = "x_score"
  /\ \E outs \in [1..Retries -> OracleOutcomes], reply \in Responses(Len(items)) :
       LET answered == \E k \in 1..Retries :
                         /\ outs[k] = "text"
                         /\ \A j \in 1..(k - 1) : outs[j] # "text" /\ ~OracleGivesUp(j - 1)
           ranks == ParseResponse(reply).rankings
           topN == searches[i + 1].topN
       IN IF answered
          THEN /\ topItems' = TopItemsOf(1, items, ranks, topN)
               /\ topItems3' = TopItemsOf(3, items, ranks, topN)
          ELSE /\ topItems' = <<>>
               /\ topItems3' = <<>>
  /\ pc' = "x_collect"
  /\ UNCHANGED <<setup, locals, parsers, i, fi, gi, fetchFor, lastErr, thrown, waited, inFlight, items,
                 parseFailed, results, counters, logMessages, ending, attempted, outcomes,
                 fetchAttempts, oracleHist, enrichment, unicornDeals3, exitCode3>>

\* the rest of the loop body of each main: after a return the deals are pushed
\* (the first program also counts) and the pacing delay runs; after a raise the
\* catch runs, which in the first program counts a failure
PairCollect ==
  /\ pc = "x_collect"
  /\ LET cfg == searches[i + 1]
         counted == IF thrown = "none"
                    THEN CountReturn(1, topItems, successfulSearches, failedSearches)
                    ELSE CountRaise(1, successfulSearches, failedSearches)
     IN /\ successfulSearches' = counted.succ
        /\ failedSearches' = counted.failed
        /\ IF thrown = "none"
           THEN /\ unicornDeals' = unicornDeals \o DealsOf(Unicorns(topItems, cfg), cfg)
                /\ unicornDeals3' = unicornDeals3 \o DealsOf(Unicorns(topItems3, cfg), cfg)
                /\ allResultsLen' = allResultsLen + Len(topItems)
                /\ yielded' = IF Len(topItems) > 0 THEN yielded \cup {i + 1} ELSE yielded
                /\ waited' = IF PacesAfter(i, Len(searches)) THEN PacingDelay ELSE waited
                /\ UNCHANGED raisedBy
           ELSE /\ raisedBy' = raisedBy \cup {i + 1}
                /\ UNCHANGED <<unicornDeals, unicornDeals3, allResultsLen, yielded, waited>>
  /\ i' = i + 1
  /\ pc' = IF i + 1 < Len(searches) THEN "x_fetch" ELSE "x_end"
  /\ UNCHANGED <<setup, locals, parsers, fi, gi, fetchFor, lastErr, thrown, inFlight, items, topItems,
                 parseFailed, logMessages, ending, attempted, fetchAttempts, oracleHist,
                 enrichment, topItems3, exitCode3>>

\* after the loop each main notifies when it has deals and ends: the first
\* program with status 1 when every search failed, the third with status 0
PairEnd ==
  /\ pc = "x_end"
  /\ emailCalls' = IF Notifies(unicornDeals) THEN emailCalls + 1 ELSE emailCalls
  /\ exitCode' = ExitStatus(1, failedSearches, Len(searches))
  /\ exitCode3' = ExitStatus(3, 0, Len(searches))
  /\ pc' = "x_done"
  /\ UNCHANGED <<setup, locals, parsers, i, fi, gi, fetchFor, lastErr, thrown, waited, inFlight, items,
                 topItems, parseFailed, results, counters, logMessages, savedLog, attempted,
                 outcomes, fetchAttempts, oracleHist, enrichment, topItems3, unicornDeals3>>

NextPair == PairFetch \/ PairScore \/ PairCollect \/ PairEnd

SpecPair == InitPair /\ [][NextPair]_vars

\* ------------------------------------------------------------------------
\* Properties
\* ------------------------------------------------------------------------
Count(seq, x) == Cardinality({k \in 1..Len(seq) : seq[k] = x})
SeqRange(seq) == {seq[k] : k \in 1..Len(seq)}
RunEnded == pc = "done" /\ configValid

\* C1: a fetch makes at most Retries (3) attempts; a failed attempt with attempts
\* left is followed by the backoff and another attempt; a successful attempt
\* returns the document with no further attempt; the failure of the last allowed
\* attempt is raised to the caller with the error of that attempt.
C1_FetchRetries ==
  /\ [](fetchAttempts <= Retries)
  /\ [][/\ ((pc = "f_request" /\ lastErr' # "none" /\ fetchAttempts < Retries)
              => (pc' = "f_backoff" /\ thrown' = "none"))
         /\ ((pc = "f_backoff") => (pc' = "f_delay"))
         /\ ((pc = "f_delay") => (pc' = "f_request" /\ fetchAttempts' = fetchAttempts + 1))
         /\ ((pc = "f_request" /\ lastErr' # "none" /\ fetchAttempts = Retries)
              => (pc' = "m_catch" /\ thrown' = lastErr'))
         /\ ((pc = "f_request" /\ lastErr' = "none") => pc' = "s_extract")
         /\ ((pc \notin {"f_delay", "m_loop"}) => fetchAttempts' = fetchAttempts)]_vars

\* the third attempt of a fetch failed with a network error, which was raised
C1_Witness == pc = "m_catch" /\ fetchAttempts = Retries /\ thrown = "network"

\* C2: every configured profile is attempted exactly once, in configuration
\* order, whatever happened to the profiles before it.
C2_EveryProfileAttempted ==
  /\ \A k \in 1..Len(attempted) : attempted[k] = k
  /\ Len(attempted) <= Len(searches)
  /\ RunEnded => Len(attempted) = Len(searches)

\* the first profile raised and the second was still attempted
C2_Witness == pc = "done" /\ 1 \in raisedBy /\ attempted = <<1, 2>>

C4_AllRaisedExitsNonZero ==
  (RunEnded /\ Cardinality(raisedBy) = Len(searches)) => exitCode = 1

C6_DealsMeetOwnThreshold ==
  \A k \in 1..Len(unicornDeals) :
    LET d == unicornDeals[k] IN
    /\ d.item.scan \in 1..Len(searches)
    /\ d.searchConfig = searches[d.item.scan]
    /\ d.item.aiScore >= d.searchConfig.unicornThreshold

\* a deal of the first profile at its threshold 85, followed by a deal of the
\* second profile, whose threshold is 88
C6_Witness ==
  /\ Len(unicornDeals) = 2
  /\ unicornDeals[1].item.scan = 1 /\ unicornDeals[1].item.aiScore = 85
  /\ unicornDeals[2].item.scan = 2 /\ unicornDeals[2].item.aiScore = 88

\* C7: the pass-1 filter returns exactly the listings scoring more than 20,
\* ordered by score descending, truncated to the first topN.
C7_Pass1FilterExact ==
  pc = "filtered" =>
    LET topN == searches[1].topN
        relevant == {k \in 1..Len(items) : items[k].aiScore > 20}
    IN /\ \A k \in 1..Len(topItems) : topItems[k].aiScore > 20
       /\ Len(topItems) = Min(topN, Cardinality(relevant))
       /\ \A k \in 1..(Len(topItems) - 1) : topItems[k].aiScore >= topItems[k + 1].aiScore
       /\ \A x \in SeqRange(topItems) : Count(topItems, x) <= Count(items, x)
       /\ \A k \in relevant :
            Count(topItems, items[k]) < Count(items, items[k])
              => (Len(topItems) > 0 /\ items[k].aiScore <= topItems[Len(topItems)].aiScore)

InProfile == pc \notin {"m_start", "m_loop", "done"} /\ i < Len(searches)
SameListing(a, b) ==
  a.title = b.title /\ a.price = b.price /\ a.link = b.link /\ a.scan = b.scan

\* C8: detail pages are fetched and the second scoring call is issued only
\* for listings of the pass-1 top-N that score at least the profile's unicorn
\* threshold; a profile whose top-N holds no such listing causes no detail
\* fetch, no second scoring call, and adds no deal.
C8_EnrichmentGated ==
  /\ [](InProfile =>
         LET cfg == searches[i + 1]
             qualifying == {k \in 1..Len(topItems) :
                              topItems[k].aiScore >= cfg.unicornThreshold}
         IN /\ (detailFetches > 0 \/ pass = 2) => qualifying # {}
            /\ Len(shortlist) = Cardinality(qualifying)
            /\ \A s \in 1..Len(shortlist) :
                 \E k \in qualifying : SameListing(shortlist[s], topItems[k])
            /\ detailFetches <= Len(shortlist)
            /\ (pc = "m_after" /\ qualifying = {}) => (detailFetches = 0 /\ pass <= 1))
  /\ [][(pc = "m_after" /\ \A k \in 1..Len(topItems) :
                             topItems[k].aiScore < searches[i + 1].unicornThreshold)
          => unicornDeals' = unicornDeals]_vars

\* pass 1 returned a non-empty top-N with no listing at the threshold: the
\* profile ends with no detail fetch and no second scoring call
C8_Witness ==
  /\ pc = "m_after" /\ topItems # <<>> /\ shortlist = <<>>
  /\ detailFetches = 0 /\ pass = 1 /\ oracleOk = 1

\* C9: with a non-empty shortlist every shortlisted listing is enriched, one
\* at a time and in order, before the second scoring call is issued; the second
\* call scores the shortlist, which is re-sorted; and the deals added for the
\* profile are the shortlisted listings whose score after pass 2 meets the
\* threshold.
C9_EnrichThenRescore ==
  /\ [](pass = 2 =>
         /\ shortlist # <<>>
         /\ \A k \in 1..Len(shortlist) : shortlist[k].description # ""
         /\ detailFetches = Len(shortlist))
  /\ [](Cardinality(inFlight) <= 1)
  /\ []((pass = 1 /\ fetchFor \in {"detail", "frame"}) =>
         /\ ei < Len(shortlist) /\ detailFetches = ei + 1
         /\ \A k \in 1..Len(shortlist) : (shortlist[k].description # "") <=> (k <= ei))
  /\ []((pass = 2 /\ pc = "m_after") =>
         \A k \in 1..(Len(shortlist) - 1) : shortlist[k].aiScore >= shortlist[k + 1].aiScore)
  /\ [][(pc = "m_after" /\ pass = 2) =>
          LET cfg == searches[i + 1]
              kept == SelectSeq(shortlist, LAMBDA s : s.aiScore >= cfg.unicornThreshold)
          IN unicornDeals' =
               unicornDeals \o [k \in 1..Len(kept) |-> [item |-> kept[k], searchConfig |-> cfg]]
        ]_vars

\* two listings were shortlisted and enriched, and pass 2 demoted one of them
\* below the threshold
C9_Witness ==
  /\ pc = "m_after" /\ pass = 2 /\ Len(shortlist) = 2 /\ detailFetches = 2
  /\ shortlist[1].aiScore >= searches[i + 1].unicornThreshold
  /\ shortlist[2].aiScore < searches[i + 1].unicornThreshold

\* C10: when the reply of the oracle cannot be parsed, the scorer returns no
\* rankings without raising and without another oracle request: the pass
\* consumed exactly one successful oracle call, no backoff or retry follows, no
\* item is scored and the profile continues with an empty result.
C10_ParseFailureReturnsEmpty ==
  parseFailed =>
    /\ oracleOk = 1
    /\ pc \notin {"g_request", "g_backoff", "m_catch"}
    /\ "oracle" \notin inFlight
    /\ thrown = "none"
    /\ pc = "m_after" =>
         (topItems = <<>> /\ \A k \in 1..Len(items) : items[k].aiScore = 0)

\* the second oracle attempt returned text that did not parse
C10_Witness == parseFailed /\ pc = "m_after" /\ oracleAttempts = 2 /\ items # <<>>

\* C11: for a profile whose oracle reply is truncated or otherwise invalid
\* JSON, nothing is raised out of the profile's processing, every listing of
\* the profile keeps its initial score 0 and empty reasoning, and the profile
\* adds nothing to the deal list.
C11_InvalidReplyYieldsNoDeal ==
  /\ [](parseFailed =>
         /\ thrown = "none" /\ pc # "m_catch"
         /\ \A k \in 1..Len(items) : items[k].aiScore = 0 /\ items[k].aiReasoning = ""
         /\ topItems = <<>>
         /\ attempted # <<>> /\ attempted[Len(attempted)] \notin raisedBy)
  /\ [][(pc = "m_after" /\ parseFailed) =>
          /\ unicornDeals' = unicornDeals
          /\ allResultsLen' = allResultsLen
          /\ raisedBy' = raisedBy
          /\ pc' \in {"m_pace", "m_loop"}]_vars

\* the first of two profiles got an unparsable reply for a batch of two
\* listings and was left without a deal and without a raise
C11_Witness ==
  /\ pc = "m_pace" /\ parseFailed /\ i = 0
  /\ unicornDeals = <<>> /\ raisedBy = {} /\ oracleOk = 1

\* the oracle call of the current profile failed on its last allowed attempt and
\* scrapeEbay has returned to main
OracleExhausted == pc = "m_after" /\ lastErr # "none"

\* C12: when the oracle call of a profile fails on every allowed attempt, the
\* failure counter grows by exactly one for that profile and the success counter
\* not at all, the profile adds no deal, and the run goes on to the remaining
\* profiles, all of which are attempted by the end of the run.
C12_OracleFailureCountedOnce ==
  /\ [](OracleExhausted => (oracleAttempts = Retries /\ oracleOk = 0))
  /\ [][OracleExhausted =>
          /\ failedSearches' = failedSearches + 1
          /\ successfulSearches' = successfulSearches
          /\ unicornDeals' = unicornDeals
          /\ pc' \in {"m_pace", "m_loop"}]_vars
  /\ [](RunEnded => Len(attempted) = Len(searches))

\* C13: scoring an empty batch returns an empty sequence of rankings and
\* issues no oracle request at all, neither before nor after it returns.
C13_EmptyBatchNoOracleCall ==
  /\ [](items = <<>> =>
         /\ oracleAttempts = 0 /\ oracleOk = 0 /\ "oracle" \notin inFlight
         /\ pc \notin {"g_request", "g_backoff", "r_raised"}
         /\ rankings = <<>>)
  /\ [][(pc = "r_call" /\ items = <<>>) => pc' = "r_returned"]_vars

\* the scorer returned for the empty batch
C13_Witness == pc = "r_returned" /\ items = <<>> /\ rankings = <<>> /\ oracleAttempts = 0

\* the body a reply carries, whatever wraps it
BodyOf(text) == CHOOSE tok \in {text[k] : k \in 1..Len(text)} :
                  tok.t \in {"payload", "norank", "junk", "cut"}

\* C14: for every valid ranking payload, the scorer's result on the payload
\* wrapped in fenced-code markers (with a language tag or without one, with
\* surrounding whitespace or without) is its result on the bare payload: the
\* payload's rankings, with no parse failure.
C14_FencedEqualsBare ==
  (pc = "p_returned" /\ BodyOf(response).t = "payload") =>
    /\ ~parseFailed
    /\ rankings = BodyOf(response).v
    /\ rankings = ParseResponse(<<BodyOf(response)>>).rankings

\* the entries of the returned rankings whose identifier is listing k's index
HitsOf(k) == {j \in 1..Len(rankings) : rankings[j].id = k - 1}
LastOf(S) == CHOOSE j \in S : \A h \in S : h <= j

\* C15: after the rankings of a reply were applied, every listing carries the
\* score and reasoning of the last entry whose identifier is its index, and a
\* listing no entry names is unchanged (score 0, no reasoning); so an entry
\* whose identifier is no index of the batch changes no listing and raises
\* nothing, and the other entries of the reply are applied all the same.
C15_OutOfRangeIdIgnored ==
  pc = "r_applied" =>
    /\ thrown = "none"
    /\ \A k \in 1..Len(items) :
         IF HitsOf(k) = {}
         THEN items[k].aiScore = 0 /\ items[k].aiReasoning = ""
         ELSE /\ items[k].aiScore = rankings[LastOf(HitsOf(k))].score
              /\ items[k].aiReasoning = rankings[LastOf(HitsOf(k))].reasoning

\* a reply for two listings whose first entry names identifier 2, no index of
\* the batch, and whose second entry scores listing 0
C15_Witness ==
  /\ pc = "r_applied" /\ Len(items) = 2 /\ Len(rankings) = 2
  /\ rankings[1].id = 2 /\ rankings[2].id = 0 /\ rankings[2].score = 85
  /\ items[1].aiScore = 85 /\ items[2].aiScore = 0

\* C16: the oracle call makes at most Retries (3) attempts; an attempt that
\* fails (network error, non-success status, or a reply without text) with
\* attempts left is followed by a backoff of k times 3000 ms after the k-th
\* failure and then by the next attempt; a reply with text ends the call with
\* no further attempt; the failure of the last allowed attempt is raised to
\* the caller with the error of that attempt and without a backoff.
C16_OracleRetries ==
  /\ [](oracleAttempts <= Retries)
  /\ [][/\ ((pc = "g_request" /\ lastErr' # "none" /\ oracleAttempts < Retries)
              => (pc' = "g_backoff" /\ thrown' = "none"
                  /\ lastErr' \in {"network", "status", "notext"}))
         /\ ((pc = "g_backoff")
              => /\ pc' = "g_request"
                 /\ waited' = GeminiBackoffStep * oracleAttempts
                 /\ oracleAttempts' = oracleAttempts + 1)
         /\ ((pc = "g_request" /\ lastErr' # "none" /\ oracleAttempts = Retries)
              => (pc' = "r_raised" /\ thrown' = lastErr' /\ waited' = waited))
         /\ ((pc = "g_request" /\ lastErr' = "none") => pc' = "r_returned")
         /\ ((pc # "g_backoff" /\ pc # "r_call") => oracleAttempts' = oracleAttempts)
        ]_vars

\* the third oracle attempt returned a reply without text, after backoffs of
\* 3000 and 6000 ms, and that error was raised
C16_Witness ==
  /\ pc = "r_raised" /\ thrown = "notext" /\ oracleAttempts = Retries
  /\ waited = 2 * GeminiBackoffStep /\ oracleOk = 0

\* C17: no request of a fetch is issued unless the pre-request delay of that
\* attempt (3000 ms plus a jitter below 4000 ms) has just completed, for the
\* first attempt as for every retry.
C17_DelayBeforeEveryRequest ==
  /\ [](pc = "f_request" =>
         /\ "fetch" \in inFlight
         /\ waited >= FetchDelayBase /\ waited < FetchDelayBase + FetchJitter)
  /\ [][("fetch" \notin inFlight /\ "fetch" \in inFlight') =>
          /\ pc = "f_delay"
          /\ fetchAttempts' = fetchAttempts + 1
          /\ waited' >= FetchDelayBase /\ waited' < FetchDelayBase + FetchJitter]_vars
  /\ [][fetchAttempts' # fetchAttempts =>
          (fetchAttempts' = 0 \/ ("fetch" \notin inFlight /\ "fetch" \in inFlight'))]_vars

\* the first request of a fetch is in flight after the longest pre-request delay
C17_Witness ==
  /\ pc = "f_request" /\ fetchAttempts = 1 /\ fi = 0
  /\ waited = FetchDelayBase + FetchJitter - 1

\* C18: after the k-th failed attempt of a fetch, when it is not the last
\* allowed attempt, the fetcher sleeps exactly k times 5000 ms before the next
\* attempt; after the failure of the last allowed attempt it raises without
\* sleeping.
C18_LinearBackoff ==
  /\ [][(pc = "f_request" /\ lastErr' # "none") =>
          IF fetchAttempts < Retries
          THEN pc' = "f_backoff"
          ELSE pc' = "m_catch" /\ waited' = 0 /\ thrown' # "none"]_vars
  /\ [][(pc = "f_backoff") =>
          /\ waited' = fetchAttempts * FetchBackoffStep
          /\ fetchAttempts < Retries
          /\ pc' = "f_delay" /\ fetchAttempts' = fetchAttempts]_vars
  /\ [](pc = "m_catch" => waited = 0)

\* the backoff after the second failed attempt has run: 10000 ms
C18_Witness ==
  /\ pc = "f_delay" /\ fetchAttempts = 2 /\ waited = 2 * FetchBackoffStep

\* the defects of a container: no title, no price, no link with the item
\* path, or an ad placeholder for a title
Defective(c) ==
  \/ c.title = "N/A"
  \/ c.price = "N/A"
  \/ c.link \in {"#", "https://www.ebay.com.au/p/1"}
  \/ c.title \in {"Shop on eBay", "SHOP ON EBAY", "More - Shop on eBay"}

\* C19: no extracted listing has the unknown sentinel as title or price, a
\* link without the item path, or an ad placeholder as title; the output is
\* the containers without defect, each one of them and in page order, so a
\* defective container is dropped and the others are still extracted; nothing
\* is raised.
C19_ExtractionValidity ==
  pc = "x_extracted" =>
    LET sound == {k \in 1..Len(containers) : ~Defective(containers[k])}
        Nth(n) == CHOOSE k \in sound : Cardinality({h \in sound : h < k}) = n - 1
    IN /\ thrown = "none"
       /\ Len(items) = Cardinality(sound)
       /\ \A n \in 1..Len(items) :
            /\ items[n].title = containers[Nth(n)].title
            /\ items[n].price = containers[Nth(n)].price
            /\ items[n].link = containers[Nth(n)].link
            /\ items[n].title \notin {"N/A", "Shop on eBay", "SHOP ON EBAY",
                                      "More - Shop on eBay"}
            /\ items[n].price # "N/A"
            /\ items[n].link = "https://www.ebay.com.au/itm/1"

\* an ad placeholder in capitals ahead of a listing was dropped and the listing
\* after it was extracted
C19_Witness ==
  /\ pc = "x_extracted" /\ Len(containers) = 2 /\ Len(items) = 1
  /\ containers[1].title = "SHOP ON EBAY" /\ containers[1].price = "AU $100"
  /\ containers[1].link = "https://www.ebay.com.au/itm/1"
  /\ items[1].title = "item"

\* the file was written by the save that preceded the exit
Persisted == savedLog # <<E("none", 0)>>

NotifierFailed == E("email_error", 0) \in SeqRange(logMessages)

\* C21: the notifier is called at most once, only when the loop has been left
\* with every profile attempted and with a non-empty deal list, and a run that
\* ended called it exactly when its deal list is non-empty; a notifier failure
\* is followed by the save and the end of the run with the success status
\* (a run with deals has a profile that succeeded), and a log that was written
\* holds the failure.
C21_NotifiedOnceIffDeals ==
  /\ [](emailCalls \in {0, 1})
  /\ [](RunEnded => (emailCalls = 1 <=> Len(unicornDeals) > 0))
  /\ [][emailCalls' # emailCalls =>
          /\ i >= Len(searches) /\ Len(attempted) = Len(searches)
          /\ Len(unicornDeals) > 0 /\ unicornDeals' = unicornDeals]_vars
  /\ [][pc = "e_request" => pc' = "m_save"]_vars
  /\ [](RunEnded /\ NotifierFailed =>
          /\ exitCode = 0
          /\ Persisted => E("email_error", 0) \in SeqRange(savedLog))

\* a run with a deal whose mail request failed ended with status 0 and its log
\* written
C21_Witness ==
  /\ RunEnded /\ variant = 1 /\ emailCalls = 1 /\ NotifierFailed
  /\ exitCode = 0 /\ Persisted /\ Len(unicornDeals) > 0

\* C22: at most one network operation is in flight, and a request is issued
\* only when none is; at most one profile is in process: a profile is started
\* only when every profile started before it has left the loop body and no
\* request is outstanding, and a fetch or oracle request in flight belongs to
\* the one profile in process.
C22_OneOperationOneProfile ==
  /\ [](Cardinality(inFlight) <= 1)
  /\ [](Len(attempted) \in {i, i + 1})
  /\ [](inFlight \cap {"fetch", "oracle"} # {} =>
          Len(attempted) = i + 1 /\ attempted[i + 1] = i + 1)
  /\ [][~(inFlight' \subseteq inFlight) => inFlight = {}]_vars
  /\ [][attempted' # attempted =>
          /\ attempted' = Append(attempted, i + 1)
          /\ Len(attempted) = i /\ inFlight = {}
          /\ pc = "m_loop"]_vars

\* the second profile's oracle call is in flight after the first profile raised
C22_Witness ==
  /\ inFlight = {"oracle"} /\ i = 1 /\ attempted = <<1, 2>> /\ raisedBy = {1}

\* C23: a profile after the first is started only when the pacing delay has just
\* been waited, whether the profile before it returned or raised, and the
\* pacing delay is never waited after the last profile.
C23_PacingBetweenProfiles ==
  /\ [][attempted' # attempted /\ i > 0 => waited = PacingDelay]_vars
  /\ [](pc = "m_pace" => i < Len(searches) - 1)

\* the pacing delay is waited after every profile but the last that returned
C23_PacingAfterReturn ==
  /\ [][attempted' # attempted /\ i > 0 /\ i \notin raisedBy => waited = PacingDelay]_vars
  /\ [](pc = "m_pace" => i < Len(searches) - 1)

\* C24: applying the pass-1 filter to its own output changes nothing: the same
\* listings come back in the same order, for every batch and every topN.
C24_Pass1FilterIdempotent ==
  [][pc = "filtered" => pc' = "refiltered" /\ topItems' = topItems]_vars

\* the filter was applied again to an output that it had cut, reordered and
\* truncated from its input
C24_Witness ==
  /\ pc = "refiltered" /\ variant = 1 /\ searches[1].topN = 2
  /\ Len(items) = 3 /\ items[1].aiScore = 20 /\ items[2].aiScore = 30
  /\ items[3].aiScore = 88
  /\ Len(topItems) = 2 /\ topItems[1].aiScore = 88 /\ topItems[2].aiScore = 30

\* C25: for the text of day, hour and minute components d, h, m, any of them
\* left out but not all, the value returned is d*1440 + h*60 + m with 0 for a
\* component left out; for a missing, empty or "N/A" text it is null.
C25_TimeLeftMinutes ==
  pc = "t_returned" =>
    /\ \A d \in TimeParts, h \in TimeParts, m \in TimeParts :
         timeStr = Str(TimeText(d, h, m)) /\ <<d, h, m>> # <<NoPart, NoPart, NoPart>> =>
           minutes = Num((IF d = NoPart THEN 0 ELSE d) * 1440 +
                         (IF h = NoPart THEN 0 ELSE h) * 60 +
                         (IF m = NoPart THEN 0 ELSE m))
    /\ timeStr \in {JsNull, Str(<<>>), Str(NASentinel)} => minutes = JsNull

\* "3d 15h 120m" was parsed to 3*1440 + 15*60 + 120 minutes
C25_Witness ==
  /\ pc = "t_returned"
  /\ timeStr = Str(<<"3", "d", " ", "1", "5", "h", " ", "1", "2", "0", "m">>)
  /\ minutes = Num(5340)

\* the value returned is a number
IsNumeric(v) == v # JsNull /\ v # NaN

\* C26: for a range text "X to Y" the value returned is X; for any other text
\* with a number it is the first number of the text, its thousands separators
\* removed; for a text without a digit, and for a missing or empty text, no
\* numeric value is returned.
C26_PriceValue ==
  pc = "p_priced" =>
    /\ \A lead \in Leads, cur \in Currencies, sep \in Separators,
          x \in PriceNumbers, y \in PriceNumbers :
         priceStr = Str(RangeText(lead, cur, sep, x, y)) => priceNumeric = Num(x.v)
    /\ \A lead \in Leads, cur \in Currencies, x \in PriceNumbers :
         priceStr = Str(SingleText(lead, cur, x)) => priceNumeric = Num(x.v)
    /\ \A lead \in Leads, w \in Wordings :
         priceStr = Str(lead \o w) => ~IsNumeric(priceNumeric)
    /\ priceStr \in {JsNull, Str(<<>>)} => ~IsNumeric(priceNumeric)

\* the same for the texts in which no comma stands ahead of the first digit
C26_PriceValueNoLead ==
  pc = "p_priced" =>
    /\ \A cur \in Currencies, sep \in Separators, x \in PriceNumbers, y \in PriceNumbers :
         /\ priceStr = Str(RangeText(<<>>, cur, sep, x, y)) => priceNumeric = Num(x.v)
         /\ priceStr = Str(SingleText(<<>>, cur, x)) => priceNumeric = Num(x.v)
    /\ \A lead \in Leads, cur \in Currencies, sep \in Separators,
          x \in PriceNumbers, y \in PriceNumbers :
         priceStr = Str(RangeText(lead, cur, sep, x, y)) /\ Len(cur) > 1 =>
           priceNumeric = Num(x.v)
    /\ \A lead \in Leads, w \in Wordings :
         priceStr = Str(lead \o w) => ~IsNumeric(priceNumeric)
    /\ priceStr \in {JsNull, Str(<<>>)} => priceNumeric = JsNull

Placeholders == {"Error fetching description: status", "Error fetching description: network"}

\* C27: a request of enrich never ends in a raise; when it fails on the last
\* attempt the placeholder naming the error becomes the description of the
\* listing being enriched, the other listings are left as they are, and the
\* run goes on with the next shortlisted listing or, after the last one, with
\* the second scoring call; the second scoring call is issued only when every
\* shortlisted listing has a description.
C27_EnrichNeverRaises ==
  /\ [][pc = "f_request" /\ fetchFor \in {"detail", "frame"} =>
          /\ thrown' = "none" /\ pc' \in {"f_delay", "f_backoff", "g_request"}
          /\ raisedBy' = raisedBy
          /\ (lastErr' # "none" /\ fi = Retries - 1 =>
                /\ shortlist'[ei + 1].description =
                     (IF lastErr' = "status" THEN "Error fetching description: status"
                      ELSE "Error fetching description: network")
                /\ \A k \in 1..Len(shortlist) :
                     k # ei + 1 => shortlist'[k] = shortlist[k]
                /\ IF ei + 1 < Len(shortlist)
                   THEN ei' = ei + 1 /\ fetchFor' = "detail" /\ pc' = "f_delay"
                   ELSE pass' = 2 /\ pc' = "g_request")]_vars
  /\ [](pass = 2 => \A k \in 1..Len(shortlist) : shortlist[k].description # "")

\* the second scoring call is in flight for two listings of which the first
\* got a placeholder and the second its description
C27_Witness ==
  /\ pass = 2 /\ pc = "g_request" /\ Len(shortlist) = 2
  /\ shortlist[1].description \in Placeholders
  /\ shortlist[2].description = "text"

\* score and reasoning of a listing are the initial pair or the pair of one entry
PairedFields(it) ==
  \/ it.aiScore = 0 /\ it.aiReasoning = ""
  \/ \E e \in RankingEntries(Len(items)) :
       it.aiScore = e.score /\ it.aiReasoning = e.reasoning

\* C28: when the rankings of a pass are applied, a listing that the pass names
\* takes both its score and its reasoning from the last entry naming it,
\* whatever it carried before, and a listing that the pass does not name keeps
\* both fields as they were; so in every state the two fields of a listing are
\* the initial pair or the pair of one entry.
C28_ScoreAndReasoningTogether ==
  /\ [][pc = "r_returned" =>
          \A k \in 1..Len(items) :
            IF HitsOf(k) = {}
            THEN /\ items'[k].aiScore = items[k].aiScore
                 /\ items'[k].aiReasoning = items[k].aiReasoning
            ELSE /\ items'[k].aiScore = rankings[LastOf(HitsOf(k))].score
                 /\ items'[k].aiReasoning = rankings[LastOf(HitsOf(k))].reasoning]_vars
  /\ [](\A k \in 1..Len(items) : PairedFields(items[k]))

\* a second pass named the first listing twice, with 88 and then with 21: the
\* listing carries 21 and the reasoning that came with it
C28_Witness ==
  /\ pc = "r_applied" /\ pass = 2 /\ Len(items) >= 1
  /\ Len(rankings) = 2 /\ rankings[1].id = 0 /\ rankings[1].score = 88
  /\ rankings[2].id = 0 /\ rankings[2].score = 21
  /\ items[1].aiScore = 21 /\ items[1].aiReasoning = "why21"

\* C29: when every request and every delay completes, the run reaches the end
\* of the process, and no fetchWithDelay call issues more than 3 requests and
\* no callGeminiAPI call more than 3; each profile makes one call of each.
C29_RunTerminates ==
  /\ <>(pc = "done" /\ exitCode \in {0, 1})
  /\ [](fetchAttempts <= Retries /\ oracleAttempts <= Retries)
  /\ [][fetchAttempts' < fetchAttempts \/ oracleAttempts' < oracleAttempts =>
          attempted' # attempted]_vars

\* a run of two profiles ended after three fetch attempts for the last one
C29_Witness ==
  /\ pc = "done" /\ configValid /\ Len(searches) = 2 /\ Len(attempted) = 2
  /\ fetchAttempts = Retries /\ raisedBy = {2} /\ yielded = {1}

\* the log lines written since scrapeEbay logged the URL of the current profile
CallLog ==
  LET at == {k \in 1..Len(logMessages) : logMessages[k] = E("url", i + 1)}
  IN IF at = {} THEN <<>>
     ELSE SubSeq(logMessages, (CHOOSE k \in at : TRUE) + 1, Len(logMessages))

\* the results-page fetchWithDelay call has returned or raised
FetchCallEnded == pc \in {"s_extract", "m_catch"}

\* C30 as stated: when a fetch call has ended, the log holds a line for each of
\* its attempts, the successful one included, in attempt order.
C30_EveryAttemptLogged ==
  FetchCallEnded =>
    /\ Len(CallLog) >= fetchAttempts
    /\ \A k \in 1..fetchAttempts : CallLog[k].n = k

\* C30: when a fetch call has ended, the lines it logged are one line for each
\* failed attempt, numbered by attempt and in attempt order, and nothing else:
\* a call that returned after n attempts logged n - 1 lines and none for the
\* attempt that succeeded, a call that raised logged one for each of its 3
\* attempts.
C30_EveryFailureLogged ==
  FetchCallEnded =>
    LET failures == IF pc = "s_extract" THEN fetchAttempts - 1 ELSE fetchAttempts
    IN /\ fetchAttempts \in 1..Retries
       /\ pc = "m_catch" => fetchAttempts = Retries
       /\ CallLog = [k \in 1..failures |-> E("fetch_failed", k)]

\* a fetch call returned on its third attempt with two failure lines logged
C30_Witness ==
  /\ pc = "s_extract" /\ fetchAttempts = 3
  /\ CallLog = <<E("fetch_failed", 1), E("fetch_failed", 2)>>

\* the orders in which the entries of a reply can stand
Reorderings(seq) ==
  {[k \in 1..Len(seq) |-> seq[f[k]]] :
     f \in {g \in [1..Len(seq) -> 1..Len(seq)] :
              \A a, b \in 1..Len(seq) : g[a] = g[b] => a = b}}

\* C31 as stated: whatever the entries of the reply, applying them in any
\* other order leaves every listing with the same score and reasoning.
C31_AnyOrderSameResult ==
  pc = "r_returned" =>
    \A other \in Reorderings(rankings) :
      ApplyRankings(items, other) = ApplyRankings(items, rankings)

\* C31: when no two entries of the reply carry the same identifier, applying
\* them in any other order leaves every listing with the same score and
\* reasoning, which are those the listings have once scrapeEbay applied them.
C31_DistinctIdsAnyOrder ==
  [][pc = "r_returned" /\
     (\A a, b \in 1..Len(rankings) : rankings[a].id = rankings[b].id => a = b) =>
       \A other \in Reorderings(rankings) :
         items' = IF Len(other) > 0 THEN ApplyRankings(items, other) ELSE items]_vars

\* a reply that scores listing 1 before listing 0 was applied to two listings
C31_Witness ==
  /\ pc = "r_applied" /\ Len(items) = 2 /\ Len(rankings) = 2
  /\ rankings[1].id = 1 /\ rankings[1].score = 85
  /\ rankings[2].id = 0 /\ rankings[2].score = 21
  /\ items[1].aiScore = 21 /\ items[2].aiScore = 85

\* C32: within a profile the first oracle request is issued by the step that
\* extracted the page, after a fetch whose last attempt did not fail, and only
\* with at least one listing extracted; while the oracle is being called the
\* batch is not empty; a profile whose fetch raised, or whose page gave no
\* valid listing, has made no oracle request.
C32_FetchExtractScore ==
  /\ [][oracleAttempts = 0 /\ oracleAttempts' > 0 =>
          /\ pc = "s_extract" /\ Len(items') > 0
          /\ fetchAttempts >= 1 /\ Len(CallLog) = fetchAttempts - 1]_vars
  /\ [](pc = "s_extract" => fetchAttempts >= 1 /\ oracleAttempts = 0)
  /\ [](pc \in {"g_request", "g_backoff"} => Len(items) > 0 /\ oracleAttempts >= 1)
  /\ [](pc = "m_catch" => oracleAttempts = 0)
  /\ [](pc = "m_after" /\ Len(items) = 0 => oracleAttempts = 0)

\* a profile whose page, fetched at the second attempt, gave no valid listing
\* left scrapeEbay without an oracle request
C32_Witness ==
  /\ pc = "m_after" /\ Len(items) = 0 /\ fetchAttempts = 2 /\ oracleAttempts = 0

\* C33: in the program that keeps the counters, at the head of the profile loop
\* their sum is the number of profiles processed; no step lowers a counter or
\* changes both, a step that changes one adds 1 to it, and it is the step that
\* ends the processing of a profile; at the end of the run the sum is the
\* number of configured profiles.
C33_CountersAddUp ==
  /\ [](variant = 1 /\ pc = "m_loop" => successfulSearches + failedSearches = i)
  /\ [](variant = 1 /\ RunEnded =>
          successfulSearches + failedSearches = Len(searches))
  /\ [][variant = 1 =>
          /\ <<successfulSearches', failedSearches'>> \in
               {<<successfulSearches, failedSearches>>,
                <<successfulSearches + 1, failedSearches>>,
                <<successfulSearches, failedSearches + 1>>}
          /\ (pc \in {"m_after", "m_catch"} <=>
                successfulSearches' + failedSearches' =
                  successfulSearches + failedSearches + 1)]_vars

\* a run of two profiles, the first raised and the second with a top item,
\* ended with one failure and one success counted
C33_Witness ==
  /\ RunEnded /\ variant = 1 /\ Len(searches) = 2
  /\ raisedBy = {1} /\ yielded = {2}
  /\ successfulSearches = 1 /\ failedSearches = 1

\* C34: a step leaves the deals accumulated so far in place and only appends;
\* no profile has more than its topN deals in the list; the deals stand in
\* profile order, so those of one profile are contiguous, and within a profile
\* in non-increasing score order; no deal belongs to a profile that raised.
C34_DealsGrowInOrder ==
  /\ [][/\ Len(unicornDeals') >= Len(unicornDeals)
        /\ SubSeq(unicornDeals', 1, Len(unicornDeals)) = unicornDeals]_vars
  /\ [](\A p \in 1..Len(searches) :
          Cardinality({k \in 1..Len(unicornDeals) : unicornDeals[k].item.scan = p})
            <= searches[p].topN)
  /\ [](\A k \in 1..(Len(unicornDeals) - 1) :
          \/ unicornDeals[k].item.scan < unicornDeals[k + 1].item.scan
          \/ /\ unicornDeals[k].item.scan = unicornDeals[k + 1].item.scan
             /\ unicornDeals[k].item.aiScore >= unicornDeals[k + 1].item.aiScore)
  /\ [](\A k \in 1..Len(unicornDeals) : unicornDeals[k].item.scan \notin raisedBy)

\* two deals of the first profile, 88 ahead of 85, are followed by one of the
\* second profile
C34_Witness ==
  /\ RunEnded /\ Len(unicornDeals) = 3
  /\ unicornDeals[1].item.scan = 1 /\ unicornDeals[1].item.aiScore = 88
  /\ unicornDeals[2].item.scan = 1 /\ unicornDeals[2].item.aiScore = 85
  /\ unicornDeals[3].item.scan = 2

\* the listings of a batch with their index in the batch written into the title
Tagged(its) == [k \in 1..Len(its) |-> [its[k] EXCEPT !.title = k]]

\* the thresholds a profile may be configured with, 0 included
AnyThresholds == {0, 1, RelevanceFloor, 85, 100}

\* C35: a listing that no entry of the returned rankings names still has score
\* 0 and no reasoning after the rankings were applied; the pass-1 filter
\* removes it whatever topN is, so with its index written into its title it is
\* in no filtered list and in no list of unicorns for any threshold, 0
\* included; and the top items and the deals that scrapeEbay and main then
\* hold contain no listing of score 0 and at most as many listings as the
\* rankings named.
C35_UnnamedListingNeverSurfaces ==
  pc \in {"r_applied", "r_collected"} =>
    LET unnamed == {k \in 1..Len(items) : HitsOf(k) = {}} IN
    /\ \A k \in unnamed : items[k].aiScore = 0 /\ items[k].aiReasoning = ""
    /\ \A k \in unnamed : \A topN \in 1..(MaxTopN + 1) :
         LET top == Pass1Filter(variant, Tagged(items), topN) IN
         /\ \A j \in 1..Len(top) : top[j].title # k
         /\ \A t \in AnyThresholds :
              LET u == Unicorns(top, [unicornThreshold |-> t])
              IN \A j \in 1..Len(u) : u[j].title # k
    /\ pc = "r_collected" =>
         /\ \A j \in 1..Len(topItems) : topItems[j].aiScore # 0
         /\ \A j \in 1..Len(unicornDeals) : unicornDeals[j].item.aiScore # 0
         /\ Len(topItems) <= Len(items) - Cardinality(unnamed)

\* of two listings the reply named only the second, with 88: the first still
\* has score 0, and the second alone is returned and becomes a deal
C35_Witness ==
  /\ pc = "r_collected" /\ Len(items) = 2 /\ Len(rankings) = 1
  /\ rankings[1].id = 1 /\ rankings[1].score = 88
  /\ items[1].aiScore = 0 /\ items[2].aiScore = 88
  /\ Len(topItems) = 1 /\ topItems[1].aiScore = 88
  /\ Len(unicornDeals) = 1

====
